---- MODULE Spec2Model ----
(***************************************************************************)
(* A model of stockpulse's prediction engine (src/predictor.py) and of the *)
(* provider layer it reads (src/stock_data.py).                            *)
(*                                                                         *)
(* Numbers.  Python floats are modelled as fixed-point integers:           *)
(*   signals, scores, accuracies      in thousandths  (0.583  ->  583)     *)
(*   the classifier's probability     in 1e-4         (0.5005 -> 5005)     *)
(*   weights                          in hundredths   (0.14   ->   14)     *)
(*   RSI, %K, %D, percentages         in tenths       (25.0   ->  250)     *)
(*   confidence                       in tenths       (95.0   ->  950)     *)
(* float('nan') is the value NaN; every comparison with it is false, as in *)
(* Python, and the builtins min and max are modelled argument by argument  *)
(* (PyMin, PyMax) because their result on NaN depends on argument order.   *)
(* round(x, n) is modelled as round-half-even of the exact quotient.       *)
(*                                                                         *)
(* Data frames.  A price series is modelled by its length and by the       *)
(* indicator readings the analyzers compute from it (rsi_value, pct_b,     *)
(* k_val, ...): the rolling-window arithmetic of pandas is not modelled,   *)
(* its results are inputs drawn from the reading vectors of Profiles.      *)
(***************************************************************************)
EXTENDS Integers, Sequences, FiniteSets, TLC

VARIABLES
    provider,     \* the frozen responses of the market-data provider (yfinance)
    clock,        \* datetime.now(): [ticks |-> days elapsed, weekday |-> 0..6]
    WEIGHTS,      \* StockPredictor.WEIGHTS, a class attribute
    hist_2y,      \* StockPredictor._hist_2y
    hist_5y,      \* StockPredictor._hist_5y
    fetches,      \* calls of StockData.get_historical_data in this run, per period
    pc,           \* position of get_prediction()
    results,      \* the analyze_* result dicts get_prediction() holds
    signals,      \* the local dict signals of get_prediction()
    prediction,   \* what the last get_prediction() returned
    prev,         \* what the get_prediction() before it returned
    scored,       \* the locals get_prediction() computes from signals
    runs,         \* get_prediction() calls started
    probe         \* arguments and result of one function applied on its own

vars == <<provider, clock, WEIGHTS, hist_2y, hist_5y, fetches, pc, results,
          signals, scored, prediction, prev, runs, probe>>

-----------------------------------------------------------------------------
(* Floats *)

NaN == 0 - 2000000000

IsNaN(x) == x = NaN

\* Python's <, > on floats: false when either side is NaN.
Lt(a, b) == ~IsNaN(a) /\ ~IsNaN(b) /\ a < b
Gt(a, b) == Lt(b, a)

\* Python's min(a, b) is "b if b < a else a", max(a, b) is "b if b > a else a".
PyMin(a, b) == IF Lt(b, a) THEN b ELSE a
PyMax(a, b) == IF Gt(b, a) THEN b ELSE a

\* max(lo, min(hi, x)): the clamp every analyzer ends with.
ClampNoCeiling(lo, hi, x) == PyMax(lo, x)
Clamp(lo, hi, x) == PyMax(lo, PyMin(hi, x))

Abs(x) == IF x < 0 THEN 0 - x ELSE x

\* round(n / d) to the nearest integer, ties to even (d > 0).
RoundDiv(n, d) ==
    LET q == n \div d
        r == n % d
    IN  IF 2 * r < d THEN q
        ELSE IF 2 * r > d THEN q + 1
        ELSE IF q % 2 = 0 THEN q ELSE q + 1

\* Arithmetic that propagates NaN.
Add(a, b) == IF IsNaN(a) \/ IsNaN(b) THEN NaN ELSE a + b
Mul(a, k) == IF IsNaN(a) THEN NaN ELSE a * k
Neg(a) == IF IsNaN(a) THEN NaN ELSE 0 - a

RECURSIVE SumOver(_, _)
SumOver(f, S) ==
    IF S = {} THEN 0
    ELSE LET k == CHOOSE x \in S : TRUE
         IN  f[k] + SumOver(f, S \ {k})

RECURSIVE SeqSum(_)
SeqSum(s) == IF s = <<>> THEN 0 ELSE Head(s) + SeqSum(Tail(s))

-----------------------------------------------------------------------------
(* The weight table, predictor.py:10-25, in hundredths *)

SIGNAL_ORDER ==
    <<"ml_prediction", "rsi", "ma_trend", "macd", "historical_pattern",
      "sentiment", "bollinger", "stochastic", "relative_strength",
      "weekly_trend", "volume_trend", "atr_volatility", "weekday", "seasonal">>

SignalNames == {SIGNAL_ORDER[i] : i \in 1..Len(SIGNAL_ORDER)}

WEIGHTS_Skewed ==
    [ml_prediction |-> 14, rsi |-> 10, ma_trend |-> 10, macd |-> 9,
     historical_pattern |-> 9, sentiment |-> 8, bollinger |-> 7,
     stochastic |-> 7, relative_strength |-> 6, weekly_trend |-> 6,
     volume_trend |-> 6, atr_volatility |-> 4, weekday |-> 2, seasonal |-> 5]

WEIGHTS_TABLE ==
    [ml_prediction |-> 14, rsi |-> 10, ma_trend |-> 10, macd |-> 9,
     historical_pattern |-> 9, sentiment |-> 8, bollinger |-> 7,
     stochastic |-> 7, relative_strength |-> 6, weekly_trend |-> 6,
     volume_trend |-> 6, atr_volatility |-> 4, weekday |-> 2, seasonal |-> 2]

-----------------------------------------------------------------------------
(* The provider: what yfinance answers.  Frozen for a whole behaviour. *)

\* A fetched DataFrame, or None (get_historical_data's except branch,
\* stock_data.py:126-128).
None == [none |-> TRUE, len |-> 0]
\* The columns of a frame as yfinance returns it.
OHLCV == {"Open", "High", "Low", "Close", "Volume"}
Series(n) == [none |-> FALSE, len |-> n, cols |-> OHLCV]

\* Lengths on both sides of every minimum window of the analyzers
\* (20, 30, 60, 200, 252, 300).
Hist2yResponses ==
    {None} \cup {Series(n) : n \in {0, 25, 45, 100, 220, 252, 320}}
Hist5yResponses == {None, Series(1260)}

Profiles == {"bull", "bear", "calm", "nan", "malformed"}

\* The indicator readings the analyzers compute from a series, one vector per
\* profile.  "nan" is a series with missing values (every reading NaN),
\* "malformed" a frame without the OHLCV columns (every column access raises).
Readings(p) ==
    CASE p = "bull" ->
        [malformed |-> FALSE,
         weekday_pct |-> (0 :> 1000 @@ 1 :> 0 @@ 2 :> 600 @@ 3 :> 500 @@ 4 :> 750),
         month_has |-> TRUE, month_pct |-> 1000,
         weekly_returns |-> <<1, 1, 1, 1>>, ytd_vs_last |-> 4000,
         rsi_value |-> 250, hist_val |-> 50000, hist_prev |-> 0 - 1,
         current_price |-> 10000, ma20 |-> 9500, ma50 |-> 9000, ma200 |-> 8000,
         pct_b |-> 0 - 300, squeeze |-> FALSE,
         volume_ratio |-> 400, price_change_5d |-> 300,
         price_trend |-> 0 - 1, obv_trend |-> 1, vol_nan |-> FALSE,
         atr_ratio |-> 60,
         combined_return |-> [d \in {5, 21, 63, 126, 252} |-> 500],
         clean_rows |-> 250, latest_null |-> FALSE,
         prob_positive |-> 9500, avg_accuracy |-> 800,
         k_val |-> 50, d_val |-> 30, k_prev |-> 20, d_prev |-> 40,
         rs_combined |-> 1000]
      [] p = "bear" ->
        [malformed |-> FALSE,
         weekday_pct |-> (0 :> 0 @@ 1 :> 1000 @@ 2 :> 400 @@ 3 :> 500 @@ 4 :> 250),
         month_has |-> TRUE, month_pct |-> 0,
         weekly_returns |-> <<1, 0 - 1, 0 - 1, 0 - 1>>, ytd_vs_last |-> 0 - 4000,
         rsi_value |-> 850, hist_val |-> 0 - 50000, hist_prev |-> 1,
         current_price |-> 10000, ma20 |-> 10500, ma50 |-> 11000, ma200 |-> 12000,
         pct_b |-> 1300, squeeze |-> FALSE,
         volume_ratio |-> 400, price_change_5d |-> 0 - 300,
         price_trend |-> 1, obv_trend |-> 0 - 1, vol_nan |-> FALSE,
         atr_ratio |-> 160,
         combined_return |-> [d \in {5, 21, 63, 126, 252} |-> 0 - 500],
         clean_rows |-> 250, latest_null |-> FALSE,
         prob_positive |-> 500, avg_accuracy |-> 800,
         k_val |-> 950, d_val |-> 970, k_prev |-> 980, d_prev |-> 960,
         rs_combined |-> 0 - 1000]
      [] p = "calm" ->
        [malformed |-> FALSE,
         weekday_pct |-> (1 :> 520 @@ 4 :> 540),
         month_has |-> FALSE, month_pct |-> 500,
         weekly_returns |-> <<1, 0 - 1>>, ytd_vs_last |-> 137,
         rsi_value |-> 473, hist_val |-> 12, hist_prev |-> 1,
         current_price |-> 10000, ma20 |-> 10100, ma50 |-> 9900, ma200 |-> 10050,
         pct_b |-> 455, squeeze |-> TRUE,
         volume_ratio |-> 100, price_change_5d |-> 100,
         price_trend |-> 1, obv_trend |-> 1, vol_nan |-> FALSE,
         atr_ratio |-> 100,
         combined_return |-> [d \in {5, 21, 63, 126, 252} |->
                                 IF d = 21 THEN 0 - 37 ELSE 13],
         clean_rows |-> 250, latest_null |-> FALSE,
         prob_positive |-> 5300, avg_accuracy |-> 520,
         k_val |-> 437, d_val |-> 440, k_prev |-> 450, d_prev |-> 445,
         rs_combined |-> 7]
      [] p = "nan" ->
        [malformed |-> FALSE,
         weekday_pct |-> (0 :> 500 @@ 2 :> 333),
         month_has |-> TRUE, month_pct |-> 667,
         weekly_returns |-> <<>>, ytd_vs_last |-> NaN,
         rsi_value |-> NaN, hist_val |-> NaN, hist_prev |-> NaN,
         current_price |-> NaN, ma20 |-> NaN, ma50 |-> NaN, ma200 |-> NaN,
         pct_b |-> NaN, squeeze |-> FALSE,
         volume_ratio |-> 100, price_change_5d |-> NaN,
         price_trend |-> NaN, obv_trend |-> NaN, vol_nan |-> TRUE,
         atr_ratio |-> NaN,
         combined_return |-> [d \in {5, 21, 63, 126, 252} |-> NaN],
         clean_rows |-> 250, latest_null |-> TRUE,
         prob_positive |-> 5000, avg_accuracy |-> 500,
         k_val |-> NaN, d_val |-> NaN, k_prev |-> NaN, d_prev |-> NaN,
         rs_combined |-> NaN]
      [] OTHER ->
        [malformed |-> TRUE,
         weekday_pct |-> <<>>,
         month_has |-> FALSE, month_pct |-> 500,
         weekly_returns |-> <<>>, ytd_vs_last |-> 0,
         rsi_value |-> 500, hist_val |-> 0, hist_prev |-> 0,
         current_price |-> 10000, ma20 |-> 0, ma50 |-> 0, ma200 |-> 0,
         pct_b |-> 500, squeeze |-> FALSE,
         volume_ratio |-> 100, price_change_5d |-> 0,
         price_trend |-> 0, obv_trend |-> 0, vol_nan |-> FALSE,
         atr_ratio |-> 100,
         combined_return |-> [d \in {5, 21, 63, 126, 252} |-> 0],
         clean_rows |-> 0, latest_null |-> FALSE,
         prob_positive |-> 5000, avg_accuracy |-> 500,
         k_val |-> 500, d_val |-> 500, k_prev |-> 500, d_prev |-> 500,
         rs_combined |-> 0]

\* Articles as get_news() returns them (stock_data.py:184-197): the headline's
\* sentiment label and score, and its publish time in hours (0: unknown).
Headlines ==
    <<[sentiment |-> "positive", sentiment_score |-> 1000, published |-> 990],
      [sentiment |-> "negative", sentiment_score |-> 0 - 333, published |-> 940],
      [sentiment |-> "neutral",  sentiment_score |-> 0,     published |-> 0],
      [sentiment |-> "positive", sentiment_score |-> 500,   published |-> 500]>>

\* stock.news: raises, is empty, or holds headlines.
NewsResponses == {"raises", "empty", "headlines"}

\* stock.info's analyst fields and the current price (stock_data.py:204-228).
\* NoValue is Python's None (a missing key).
NoValue == 0 - 1
TargetResponses ==
    {[raises |-> FALSE, mean |-> NoValue, low |-> NoValue, high |-> NoValue,
      current |-> 10000, num |-> 0],
     [raises |-> FALSE, mean |-> 15000, low |-> 12000, high |-> 18000,
      current |-> 10000, num |-> 5],
     [raises |-> FALSE, mean |-> 15000, low |-> NoValue, high |-> 18000,
      current |-> 10000, num |-> 5]}

\* SPY's history: the fetch raises, or a frame of some length, with the
\* benchmark's returns folded into the reading rs_combined.
SpyResponses == {"raises", "short", "ok"}

Providers ==
    [hist2y : Hist2yResponses, hist5y : Hist5yResponses, profile : Profiles,
     news : NewsResponses, targets : TargetResponses, spy : SpyResponses]

-----------------------------------------------------------------------------
(* The analyzers.  Each operator is one analyze_* method: from the series it
   was handed and the readings R computed from it, to its result dict. *)

empty_weekday_result(now) ==
    [signal |-> 0,
     today_weekday |-> IF now.weekday < 4 THEN now.weekday ELSE 4,
     today_pct_positive |-> 500,
     error |-> "Insufficient historical data"]

\* predictor.py:60-75: the share of a weekday's returns that are positive,
\* each row weighted 2.0 inside the last six months and 1.0 before, in tenths
\* of a percent.
weekday_pct_positive(day_data) ==
    LET n == Len(day_data)
        w == [i \in 1..n |-> IF day_data[i].recent THEN 2 ELSE 1]
        positive_mask == [i \in 1..n |-> IF day_data[i].daily_return > 0 THEN w[i] ELSE 0]
    IN  RoundDiv(1000 * SeqSum(positive_mask), SeqSum(w))

\* predictor.py:59-75: only the weekdays that have rows get an entry.
weekday_stats_of(rows) ==
    [day \in {d \in 0..4 : rows[d] # <<>>} |-> weekday_pct_positive(rows[day])]

analyze_weekday_today_unclamped(hist, R, now) ==
    IF hist.none \/ hist.len < 30 THEN empty_weekday_result(now)
    ELSE IF R.malformed THEN empty_weekday_result(now)
    ELSE
        LET today == now.weekday
            pct_positive == IF today \in DOMAIN R.weekday_pct
                            THEN R.weekday_pct[today] ELSE 500
            signal == Clamp(0 - 1000, 1000, (pct_positive - 500) * 4)
        IN  [signal |-> signal,
             today_weekday |-> today,
             today_pct_positive |-> pct_positive,
             error |-> ""]
analyze_weekday(hist, R, now) ==
    IF hist.none \/ hist.len < 30 THEN empty_weekday_result(now)
    ELSE IF R.malformed THEN empty_weekday_result(now)
    ELSE
        LET today == IF now.weekday > 4 THEN 4 ELSE now.weekday
            pct_positive == IF today \in DOMAIN R.weekday_pct
                            THEN R.weekday_pct[today] ELSE 500
            signal == Clamp(0 - 1000, 1000, (pct_positive - 500) * 4)
        IN  [signal |-> signal,
             today_weekday |-> today,
             today_pct_positive |-> pct_positive,
             error |-> ""]

\* The trailing loop of predictor.py:168-172: the run of most recent weekly
\* returns that go in `direction`.
RECURSIVE Streak_from_oldest(_, _)
Streak_from_oldest(rets, direction) ==
    IF rets = <<>> THEN 0
    ELSE LET ret == rets[1]
         IN  IF (direction = "up" /\ ret > 0) \/ (direction = "down" /\ ret < 0)
             THEN 1 + Streak_from_oldest(Tail(rets), direction)
             ELSE 0
RECURSIVE Streak(_, _)
Streak(rets, direction) ==
    IF rets = <<>> THEN 0
    ELSE LET ret == rets[Len(rets)]
         IN  IF (direction = "up" /\ ret > 0) \/ (direction = "down" /\ ret < 0)
             THEN 1 + Streak(SubSeq(rets, 1, Len(rets) - 1), direction)
             ELSE 0

weekly_trend_of(weekly_returns) ==
    IF Len(weekly_returns) >= 2
    THEN LET up_weeks == Cardinality({i \in 1..Len(weekly_returns) : weekly_returns[i] > 0})
             down_weeks == Cardinality({i \in 1..Len(weekly_returns) : weekly_returns[i] < 0})
             direction == IF up_weeks > down_weeks THEN "up"
                          ELSE IF down_weeks > up_weeks THEN "down" ELSE "flat"
         IN  [direction |-> direction, streak |-> Streak(weekly_returns, direction),
              up_weeks |-> up_weeks, down_weeks |-> down_weeks]
    ELSE [direction |-> "flat", streak |-> 0, up_weeks |-> 0, down_weeks |-> 0]

empty_seasonal_result ==
    [signal |-> 0,
     current_month_pct_positive |-> 500,
     weekly_trend |-> [direction |-> "flat", streak |-> 0,
                       up_weeks |-> 0, down_weeks |-> 0],
     error |-> "Insufficient historical data"]

\* combined = 0.4*month + 0.3*weekly + 0.3*ytd, here in units of 1e-5.
seasonal_signal(month_pct, weekly_trend, ytd_vs_last) ==
    LET month_signal == (month_pct - 500) * 4
        weekly_signal == IF weekly_trend.direction = "up"
                         THEN 500 + weekly_trend.streak * 100
                         ELSE IF weekly_trend.direction = "down"
                         THEN 0 - 500 - weekly_trend.streak * 100
                         ELSE 0
        ytd_signal == Clamp(0 - 10000, 10000, Mul(ytd_vs_last, 5))
        combined == month_signal * 40 + weekly_signal * 30 + ytd_signal * 3
    IN  RoundDiv(Clamp(0 - 100000, 100000, combined), 100)

analyze_seasonal(hist, R) ==
    IF hist.none \/ hist.len < 252 THEN empty_seasonal_result
    ELSE IF R.malformed THEN empty_seasonal_result
    ELSE
        LET month_pct == IF R.month_has THEN R.month_pct ELSE 500
            weekly_trend == weekly_trend_of(R.weekly_returns)
        IN  [signal |-> seasonal_signal(month_pct, weekly_trend, R.ytd_vs_last),
             current_month_pct_positive |-> month_pct,
             weekly_trend |-> weekly_trend,
             error |-> ""]

empty_technical_result ==
    [rsi |-> [value |-> 500, interpretation |-> "Insufficient Data", signal |-> 0],
     macd |-> [histogram |-> 0, interpretation |-> "Insufficient Data", signal |-> 0],
     ma_trend |-> [position |-> "Unknown", interpretation |-> "Insufficient Data",
                   signal |-> 0]]

\* predictor.py:230-240, in sixths of a thousandth before the final round.
rsi_result_flat_neutral(rsi_value) ==
    LET interp == IF Lt(rsi_value, 300) THEN "Oversold"
                  ELSE IF Gt(rsi_value, 700) THEN "Overbought" ELSE "Neutral"
        rsi_signal == IF Lt(rsi_value, 300) THEN 3000 + (300 - rsi_value) * 10
                      ELSE IF Gt(rsi_value, 700) THEN 0 - 3000 - (rsi_value - 700) * 10
                      ELSE Mul(Add(500, Neg(rsi_value)), 12)
    IN  [value |-> rsi_value, interpretation |-> interp,
         signal |-> RoundDiv(Clamp(0 - 6000, 6000, rsi_signal), 6)]
rsi_result(rsi_value) ==
    LET interp == IF Lt(rsi_value, 300) THEN "Oversold"
                  ELSE IF Gt(rsi_value, 700) THEN "Overbought" ELSE "Neutral"
        rsi_signal == IF Lt(rsi_value, 300) THEN 3000 + (300 - rsi_value) * 10
                      ELSE IF Gt(rsi_value, 700) THEN 0 - 3000 - (rsi_value - 700) * 10
                      ELSE Mul(Add(500, Neg(rsi_value)), 15)
    IN  [value |-> rsi_value, interpretation |-> interp,
         signal |-> RoundDiv(Clamp(0 - 6000, 6000, rsi_signal), 6)]

\* predictor.py:253-273.  hist_val is in 1e-4, current_price in cents; the
\* signal is carried as a multiple of 1/den of a thousandth.
macd_result(hist_val, hist_prev, current_price) ==
    LET den == IF IsNaN(current_price) \/ current_price = 0 THEN 1 ELSE current_price
        hist_normalized_x10 ==
            IF current_price = 0 THEN 0
            ELSE IF IsNaN(current_price) THEN NaN
            ELSE Mul(hist_val, 10000)
        one == 1000 * den
        base == IF Gt(hist_val, 0) THEN PyMin(one, hist_normalized_x10)
                ELSE IF Lt(hist_val, 0) THEN PyMax(0 - one, hist_normalized_x10)
                ELSE 0
        base_interp == IF Gt(hist_val, 0) THEN "Bullish"
                       ELSE IF Lt(hist_val, 0) THEN "Bearish" ELSE "Neutral"
        bullish_cross == Lt(hist_prev, 0) /\ Gt(hist_val, 0)
        bearish_cross == Gt(hist_prev, 0) /\ Lt(hist_val, 0)
        macd_signal == IF bullish_cross THEN PyMin(one, Add(base, 300 * den))
                       ELSE IF bearish_cross THEN PyMax(0 - one, Add(base, 0 - 300 * den))
                       ELSE base
    IN  [histogram |-> hist_val,
         interpretation |-> IF bullish_cross THEN "Bullish Crossover"
                            ELSE IF bearish_cross THEN "Bearish Crossover"
                            ELSE base_interp,
         signal |-> RoundDiv(Clamp(0 - one, one, macd_signal), den)]

\* predictor.py:285-294: the crossovers list, from the last CrossWindow values
\* of the two rolling means (index -1 is the last bar, -2 the one before).
CrossWindow == 5

crossovers_of(ma50_recent, ma200_recent) ==
    LET last == Len(ma50_recent)
    IN  IF Len(ma50_recent) >= CrossWindow /\ Len(ma200_recent) >= CrossWindow
        THEN IF Lt(ma50_recent[last - 1], ma200_recent[last - 1])
                /\ Gt(ma50_recent[last], ma200_recent[last])
             THEN <<"Golden Cross (MA50 crossed above MA200)">>
             ELSE IF Gt(ma50_recent[last - 1], ma200_recent[last - 1])
                     /\ Lt(ma50_recent[last], ma200_recent[last])
             THEN <<"Death Cross (MA50 crossed below MA200)">>
             ELSE <<>>
        ELSE <<>>

\* predictor.py:276-312, in thirds of a thousandth before the final round.
ma_trend_result(current_price, ma20, ma50, ma200) ==
    LET above_count == (IF Gt(current_price, ma20) THEN 1 ELSE 0)
                     + (IF Gt(current_price, ma50) THEN 1 ELSE 0)
                     + (IF Gt(current_price, ma200) THEN 1 ELSE 0)
        position == CASE above_count = 3 -> "Strong Uptrend"
                      [] above_count = 2 -> "Moderate Uptrend"
                      [] above_count = 1 -> "Moderate Downtrend"
                      [] OTHER -> "Strong Downtrend"
        alignment_bonus == IF Gt(ma20, ma50) /\ Gt(ma50, ma200) THEN 600
                           ELSE IF Lt(ma20, ma50) /\ Lt(ma50, ma200) THEN 0 - 600
                           ELSE 0
        ma_signal == (2 * above_count - 3) * 1000 + alignment_bonus
    IN  [position |-> position, interpretation |-> position,
         signal |-> RoundDiv(Clamp(0 - 3000, 3000, ma_signal), 3)]

analyze_technical_100(hist, R) ==
    IF hist.none \/ hist.len < 100 THEN empty_technical_result
    ELSE IF R.malformed THEN empty_technical_result
    ELSE [rsi |-> rsi_result(R.rsi_value),
          macd |-> macd_result(R.hist_val, R.hist_prev, R.current_price),
          ma_trend |-> ma_trend_result(R.current_price, R.ma20, R.ma50, R.ma200)]
analyze_technical(hist, R) ==
    IF hist.none \/ hist.len < 200 THEN empty_technical_result
    ELSE IF R.malformed THEN empty_technical_result
    ELSE [rsi |-> rsi_result(R.rsi_value),
          macd |-> macd_result(R.hist_val, R.hist_prev, R.current_price),
          ma_trend |-> ma_trend_result(R.current_price, R.ma20, R.ma50, R.ma200)]

\* predictor.py:371-385, in quarters of a thousandth before the final round.
bollinger_signal(pct_b, squeeze) ==
    LET doubled == IF Lt(pct_b, 200) THEN 1000 + (200 - pct_b) * 5
                   ELSE IF Gt(pct_b, 800) THEN 0 - 1000 - (pct_b - 800) * 5
                   ELSE Mul(Add(500, Neg(pct_b)), 2)
        signal == IF squeeze THEN doubled ELSE Mul(doubled, 2)
    IN  RoundDiv(Clamp(0 - 4000, 4000, signal), 4)

analyze_bollinger(hist, R) ==
    IF hist.none \/ hist.len < 20
    THEN [signal |-> 0, pct_b |-> 500, squeeze |-> FALSE,
          interpretation |-> "Insufficient Data"]
    ELSE IF R.malformed
    THEN [signal |-> 0, pct_b |-> 500, squeeze |-> FALSE, interpretation |-> "Error"]
    ELSE [signal |-> bollinger_signal(R.pct_b, R.squeeze),
          pct_b |-> R.pct_b, squeeze |-> R.squeeze,
          interpretation |->
              IF Lt(R.pct_b, 200) THEN "Near Lower Band (Oversold)"
              ELSE IF Gt(R.pct_b, 800) THEN "Near Upper Band (Overbought)"
              ELSE "Within Bands"]

\* predictor.py:422-453.  volume_ratio in hundredths, price_change_5d in 1e-4.
volume_signal(volume_ratio, price_change_5d, price_trend, obv_trend) ==
    LET base == IF Gt(volume_ratio, 150)
                THEN IF Gt(price_change_5d, 0)
                     THEN PyMin(1000, (volume_ratio - 100) * 5)
                     ELSE PyMax(0 - 1000, 0 - (volume_ratio - 100) * 5)
                ELSE IF Lt(volume_ratio, 60) THEN 0
                ELSE IF Gt(price_change_5d, 200) THEN 200
                ELSE IF Lt(price_change_5d, 0 - 200) THEN 0 - 200
                ELSE 0
        signal == IF Gt(price_trend, 0) /\ Lt(obv_trend, 0)
                  THEN PyMax(0 - 1000, base - 300)
                  ELSE IF Lt(price_trend, 0) /\ Gt(obv_trend, 0)
                  THEN PyMin(1000, base + 300)
                  ELSE base
    IN  Clamp(0 - 1000, 1000, signal)

analyze_volume_trend(hist, R) ==
    IF hist.none \/ hist.len < 30
    THEN [signal |-> 0, trend |-> "Normal", interpretation |-> "Insufficient Data"]
    ELSE IF R.malformed \/ R.vol_nan
    \* int(avg_vol_20) of a NaN raises ValueError (predictor.py:462)
    THEN [signal |-> 0, trend |-> "Normal", interpretation |-> "Error"]
    ELSE LET trend == IF Gt(R.volume_ratio, 150) THEN "High Volume"
                      ELSE IF Lt(R.volume_ratio, 60) THEN "Low Volume"
                      ELSE "Normal Volume"
         IN  [signal |-> volume_signal(R.volume_ratio, R.price_change_5d,
                                       R.price_trend, R.obv_trend),
              trend |-> trend, interpretation |-> trend]

\* predictor.py:495-511.  atr_ratio in hundredths.
atr_volatility(atr_ratio) ==
    IF Gt(atr_ratio, 150) THEN [volatility |-> "Very High", signal |-> 0 - 400]
    ELSE IF Gt(atr_ratio, 120) THEN [volatility |-> "High", signal |-> 0 - 200]
    ELSE IF Lt(atr_ratio, 70) THEN [volatility |-> "Low", signal |-> 200]
    ELSE IF Lt(atr_ratio, 85) THEN [volatility |-> "Below Average", signal |-> 100]
    ELSE [volatility |-> "Normal", signal |-> 0]

analyze_atr(hist, R) ==
    IF hist.none \/ hist.len < 30
    THEN [signal |-> 0, volatility |-> "Unknown", interpretation |-> "Insufficient Data"]
    ELSE IF R.malformed
    THEN [signal |-> 0, volatility |-> "Unknown", interpretation |-> "Error"]
    ELSE LET v == atr_volatility(R.atr_ratio)
         IN  [signal |-> Clamp(0 - 1000, 1000, v.signal),
              volatility |-> v.volatility, interpretation |-> v.volatility]

\* predictor.py:548-565, in sixths of a thousandth before the final round.
stochastic_result(k_val, d_val, k_prev, d_prev) ==
    LET base == IF Lt(k_val, 200) THEN 3000 + (200 - k_val) * 15
                ELSE IF Gt(k_val, 800) THEN 0 - 3000 - (k_val - 800) * 15
                ELSE Mul(Add(500, Neg(k_val)), 10)
        base_interp == IF Lt(k_val, 200) THEN "Oversold"
                       ELSE IF Gt(k_val, 800) THEN "Overbought" ELSE "Neutral"
        bullish == Lt(k_prev, d_prev) /\ Gt(k_val, d_val) /\ Lt(k_val, 300)
        bearish == Gt(k_prev, d_prev) /\ Lt(k_val, d_val) /\ Gt(k_val, 700)
        signal == IF bullish THEN PyMin(6000, Add(base, 1800))
                  ELSE IF bearish THEN PyMax(0 - 6000, Add(base, 0 - 1800))
                  ELSE base
    IN  [signal |-> RoundDiv(Clamp(0 - 6000, 6000, signal), 6),
         k |-> k_val, d |-> d_val,
         interpretation |-> IF bullish THEN "Bullish Crossover"
                            ELSE IF bearish THEN "Bearish Crossover"
                            ELSE base_interp]

analyze_stochastic(hist, R) ==
    IF hist.none \/ hist.len < 30
    THEN [signal |-> 0, k |-> 500, d |-> 500, interpretation |-> "Insufficient Data"]
    ELSE IF R.malformed
    THEN [signal |-> 0, k |-> 500, d |-> 500, interpretation |-> "Error"]
    ELSE stochastic_result(R.k_val, R.d_val, R.k_prev, R.d_prev)

\* predictor.py:600-610.  combined in 1e-4; signal = combined / 0.05.
analyze_relative_strength_unchecked(hist, R, spy) ==
    IF hist.none \/ hist.len < 60
    THEN [signal |-> 0, interpretation |-> "Insufficient Data"]
    ELSE IF R.malformed
    THEN [signal |-> 0, interpretation |-> "Error"]
    ELSE [signal |-> Clamp(0 - 1000, 1000, Mul(R.rs_combined, 2)),
          interpretation |-> IF Gt(R.rs_combined, 200) THEN "Outperforming market"
                             ELSE IF Lt(R.rs_combined, 0 - 200)
                             THEN "Underperforming market"
                             ELSE "In line with market"]
analyze_relative_strength(hist, R, spy) ==
    IF hist.none \/ hist.len < 60
    THEN [signal |-> 0, interpretation |-> "Insufficient Data"]
    ELSE IF spy = "raises"
    THEN [signal |-> 0, interpretation |-> "Error"]
    ELSE IF spy \in {"none", "short"}
    THEN [signal |-> 0, interpretation |-> "Market data unavailable"]
    ELSE IF R.malformed
    THEN [signal |-> 0, interpretation |-> "Error"]
    ELSE [signal |-> Clamp(0 - 1000, 1000, Mul(R.rs_combined, 2)),
          interpretation |-> IF Gt(R.rs_combined, 200) THEN "Outperforming market"
                             ELSE IF Lt(R.rs_combined, 0 - 200)
                             THEN "Underperforming market"
                             ELSE "In line with market"]

empty_historical_result ==
    [signal |-> 0, lookbacks |-> <<>>,
     interpretation |-> "Insufficient historical data"]

lookbacks ==
    <<[days |-> 5, weight |-> 30], [days |-> 21, weight |-> 25],
      [days |-> 63, weight |-> 20], [days |-> 126, weight |-> 15],
      [days |-> 252, weight |-> 10]>>

historical_interpretation(signal) ==
    IF signal > 300 THEN "Historical dates were strongly positive"
    ELSE IF signal > 100 THEN "Historical dates were moderately positive"
    ELSE IF signal > 0 - 100 THEN "Historical dates were mixed"
    ELSE IF signal > 0 - 300 THEN "Historical dates were moderately negative"
    ELSE "Historical dates were strongly negative"

\* predictor.py:632-678.  combined_return in 1e-4; per-lookback signal is
\* combined_return / 0.02, clamped.
analyze_historical_pattern_fixed_total(hist, R) ==
    IF hist.none \/ hist.len < 252 THEN empty_historical_result
    ELSE IF R.malformed THEN empty_historical_result
    ELSE
        LET today_idx == hist.len - 1
            used == SelectSeq(lookbacks,
                        LAMBDA lb : ~(today_idx - lb.days < 1
                                      \/ today_idx - lb.days >= hist.len))
            sig(lb) == Clamp(0 - 1000, 1000, Mul(R.combined_return[lb.days], 5))
            weighted_signal == SeqSum([i \in 1..Len(used) |-> sig(used[i]) * used[i].weight])
            total_weight == SeqSum([i \in 1..Len(lookbacks) |-> lookbacks[i].weight])
            final_signal ==
                IF total_weight > 0
                THEN RoundDiv(Clamp(0 - 1000 * total_weight, 1000 * total_weight,
                                    weighted_signal), total_weight)
                ELSE 0
        IN  [signal |-> final_signal,
             lookbacks |-> [i \in 1..Len(used) |-> used[i].days],
             interpretation |-> historical_interpretation(final_signal)]
analyze_historical_pattern(hist, R) ==
    IF hist.none \/ hist.len < 252 THEN empty_historical_result
    ELSE IF R.malformed THEN empty_historical_result
    ELSE
        LET today_idx == hist.len - 1
            used == SelectSeq(lookbacks,
                        LAMBDA lb : ~(today_idx - lb.days < 1
                                      \/ today_idx - lb.days >= hist.len))
            sig(lb) == Clamp(0 - 1000, 1000, Mul(R.combined_return[lb.days], 5))
            weighted_signal == SeqSum([i \in 1..Len(used) |-> sig(used[i]) * used[i].weight])
            total_weight == SeqSum([i \in 1..Len(used) |-> used[i].weight])
            final_signal ==
                IF total_weight > 0
                THEN RoundDiv(Clamp(0 - 1000 * total_weight, 1000 * total_weight,
                                    weighted_signal), total_weight)
                ELSE 0
        IN  [signal |-> final_signal,
             lookbacks |-> [i \in 1..Len(used) |-> used[i].days],
             interpretation |-> historical_interpretation(final_signal)]

empty_ml_result ==
    [signal |-> 0, raw_signal |-> 0, probability_positive |-> 500,
     model_accuracy |-> 500, interpretation |-> "Insufficient data for ML model"]

\* predictor.py:829-830: X[:train_end] and X[train_end:val_end] (Python's
\* 0-based half-open slices, here on rows numbered from 1).
fold_split_kfold(X, train_end, val_end) ==
    [train |-> SubSeq(X, val_end - train_end + 1, val_end),
     validate |-> SubSeq(X, 1, val_end - train_end)]
fold_split(X, train_end, val_end) ==
    [train |-> SubSeq(X, 1, train_end),
     validate |-> SubSeq(X, train_end + 1, val_end)]

\* predictor.py:822-828: the folds of range(3) that are not skipped.
walk_forward_folds(X) ==
    LET fold_size == Len(X) \div 5
        train_end(fold) == fold_size * (fold + 2)
        val_end(fold) == PyMin(train_end(fold) + fold_size, Len(X))
        kept == SelectSeq(<<0, 1, 2>>, LAMBDA fold : ~(val_end(fold) <= train_end(fold)))
    IN  [k \in 1..Len(kept) |->
            [fold |-> kept[k]] @@ fold_split(X, train_end(kept[k]), val_end(kept[k]))]

\* predictor.py:844: np.mean(accuracies) if accuracies else 0.5, in thousandths
\* (the accuracies used here have an exact mean).
avg_accuracy_of(accuracies) ==
    IF Len(accuracies) > 0 THEN SeqSum(accuracies) \div Len(accuracies) ELSE 500

\* predictor.py:864-868.  prob_positive in 1e-4, avg_accuracy and the signals
\* in thousandths.
ml_signal_unfloored(prob_positive, avg_accuracy) ==
    LET signal == RoundDiv(Clamp(0 - 10000, 10000, (prob_positive - 5000) * 2), 10)
        accuracy_multiplier == PyMax(0, PyMin(1000, (avg_accuracy - 500) * 4))
    IN  [raw |-> signal,
         adjusted |-> RoundDiv(signal * accuracy_multiplier, 1000)]
ml_signal(prob_positive, avg_accuracy) ==
    LET signal == RoundDiv(Clamp(0 - 10000, 10000, (prob_positive - 5000) * 2), 10)
        accuracy_multiplier == PyMax(0, PyMin(1000, (avg_accuracy - 500) * 4))
    IN  [raw |-> signal,
         adjusted |-> RoundDiv(signal * PyMax(300, accuracy_multiplier), 1000)]

analyze_ml(hist, R) ==
    IF hist.none \/ hist.len < 300 THEN empty_ml_result
    ELSE IF R.malformed THEN empty_ml_result
    ELSE IF R.clean_rows < 200 THEN empty_ml_result
    ELSE IF R.latest_null THEN empty_ml_result
    ELSE LET s == ml_signal(R.prob_positive, R.avg_accuracy)
         IN  [signal |-> s.adjusted, raw_signal |-> s.raw,
              probability_positive |-> RoundDiv(R.prob_positive, 10),
              model_accuracy |-> R.avg_accuracy,
              interpretation |-> IF Abs(s.adjusted) < 100 THEN "neutral"
                                 ELSE IF s.adjusted > 0 THEN "bullish" ELSE "bearish"]

\* StockData.get_news (stock_data.py:142-202): [] when stock.news raises or is
\* empty, else the articles.
get_news_unguarded(news) == IF news = "empty" THEN <<>> ELSE Headlines
get_news(news) == IF news = "headlines" THEN Headlines ELSE <<>>

\* datetime.now() in hours.
NowHours(now) == 1000 + 24 * now.ticks

\* predictor.py:933-945, in tenths.
recency_weight_unknown_stale(article, now) ==
    LET age_hours == IF article.published > 0
                     THEN NowHours(now) - article.published ELSE 169
    IN  IF age_hours <= 24 THEN 10
        ELSE IF age_hours <= 72 THEN 7
        ELSE IF age_hours <= 168 THEN 4
        ELSE 2
recency_weight(article, now) ==
    LET age_hours == IF article.published > 0
                     THEN NowHours(now) - article.published ELSE 168
    IN  IF age_hours <= 24 THEN 10
        ELSE IF age_hours <= 72 THEN 7
        ELSE IF age_hours <= 168 THEN 4
        ELSE 2

empty_sentiment_result ==
    [articles_analyzed |-> 0, positive_count |-> 0, negative_count |-> 0,
     neutral_count |-> 0, weighted_score |-> 0, signal |-> 0]

\* predictor.py:918-975: the body of analyze_sentiment once the articles are
\* fetched.
sentiment_of(articles, now) ==
    LET n == Len(articles)
        weights == [i \in 1..n |-> recency_weight(articles[i], now)]
        weighted_scores == [i \in 1..n |-> articles[i].sentiment_score * weights[i]]
        total_weight == SeqSum(weights)
        count(label) == Cardinality({i \in 1..n : articles[i].sentiment = label})
    IN  IF n = 0 THEN empty_sentiment_result
        ELSE [articles_analyzed |-> n,
              positive_count |-> count("positive"),
              negative_count |-> count("negative"),
              neutral_count |-> n - count("positive") - count("negative"),
              weighted_score |-> IF total_weight > 0
                                 THEN RoundDiv(SeqSum(weighted_scores), total_weight)
                                 ELSE 0,
              signal |-> IF total_weight > 0
                         THEN RoundDiv(Clamp(0 - 1000 * total_weight, 1000 * total_weight,
                                             SeqSum(weighted_scores)), total_weight)
                         ELSE 0]

analyze_sentiment(news, now) == sentiment_of(get_news(news), now)

-----------------------------------------------------------------------------
(* The aggregator: get_prediction(), predictor.py:987-1187 *)

\* predictor.py:1000-1021: the signal map, weekly_trend derived from the
\* seasonal result.
build_signals(res) ==
    LET weekly == res.seasonal.weekly_trend
        weekly_trend == IF weekly.direction = "up"
                        THEN PyMin(1000, 300 + weekly.streak * 150)
                        ELSE IF weekly.direction = "down"
                        THEN PyMax(0 - 1000, 0 - 300 - weekly.streak * 150)
                        ELSE 0
    IN  [ml_prediction |-> res.ml_result.signal,
         rsi |-> res.technical.rsi.signal,
         ma_trend |-> res.technical.ma_trend.signal,
         macd |-> res.technical.macd.signal,
         historical_pattern |-> res.historical_pattern.signal,
         sentiment |-> res.sentiment.signal,
         bollinger |-> res.bollinger.signal,
         stochastic |-> res.stochastic.signal,
         relative_strength |-> res.relative_strength.signal,
         weekly_trend |-> weekly_trend,
         volume_trend |-> res.volume_trend.signal,
         atr_volatility |-> res.atr.signal,
         weekday |-> res.weekday.signal,
         seasonal |-> res.seasonal.signal]

\* predictor.py:1023-1027: sum over the keys of the weight table (1e-5 units),
\* clamped, rounded to thousandths.
combined_score_skipping(sigs, weights) ==
    RoundDiv(Clamp(0 - 100000, 100000,
                   SumOver([k \in DOMAIN weights \ {"seasonal"} |-> sigs[k] * weights[k]],
                           DOMAIN weights \ {"seasonal"})), 100)
combined_score_of(sigs, weights) ==
    RoundDiv(Clamp(0 - 100000, 100000,
                   SumOver([k \in DOMAIN weights |-> sigs[k] * weights[k]],
                           DOMAIN weights)), 100)

\* predictor.py:1029-1034.
recommendation_lenient(combined_score) ==
    IF combined_score >= 250 THEN "Buy"
    ELSE IF combined_score <= 0 - 250 THEN "Sell"
    ELSE "Hold"
recommendation_sign_slip(combined_score) ==
    IF combined_score > 0 - 250 THEN "Buy"
    ELSE IF combined_score < 0 - 250 THEN "Sell"
    ELSE "Hold"
recommendation_of(combined_score) ==
    IF combined_score > 250 THEN "Buy"
    ELSE IF combined_score < 0 - 250 THEN "Sell"
    ELSE "Hold"

\* predictor.py:1036-1049: w * min(1.0, abs(sig_val)) per signal, in 1e-5.
\* WEIGHTS.get(key, 0) is 0 for a key the table lacks.
weight_get(weights, key) == IF key \in DOMAIN weights THEN weights[key] ELSE 0

weighted_agreement_of(sigs, weights, combined_score) ==
    SumOver([k \in DOMAIN sigs |->
                IF (combined_score > 0 /\ sigs[k] > 0)
                   \/ (combined_score < 0 /\ sigs[k] < 0)
                THEN weight_get(weights, k) * PyMin(1000, Abs(sigs[k]))
                ELSE 0], DOMAIN sigs)

weighted_opposition_of(sigs, weights, combined_score) ==
    SumOver([k \in DOMAIN sigs |->
                IF (combined_score > 0 /\ ~(sigs[k] > 0) /\ sigs[k] < 0 - 200)
                   \/ (combined_score < 0 /\ ~(sigs[k] < 0) /\ sigs[k] > 200)
                THEN weight_get(weights, k) * PyMin(1000, Abs(sigs[k]))
                ELSE 0], DOMAIN sigs)

\* np.var(signal_values) is variance_numerator / (n^2 * 10^6), n = 14.
variance_numerator(sigs) ==
    LET n == Cardinality(DOMAIN sigs)
        sum == SumOver(sigs, DOMAIN sigs)
        sumsq == SumOver([k \in DOMAIN sigs |-> sigs[k] * sigs[k]], DOMAIN sigs)
    IN  n * sumsq - sum * sum

\* predictor.py:1053-1056, exactly, in tenths of a point:
\*   x = 200 + abs_score*(50000 + agreement)/10^5 - opposition/200
\*           - min(150, 3*var_num/1960000)
\* kept as whole + frac/ConfDen so that no product leaves 32 bits.
ConfDen == 9800000

confidence_raw_minus(abs_score, agreement, opposition, var_num) ==
    LET n1 == abs_score * (50000 - agreement)
        capped == 3 * var_num >= 150 * 1960000
        q3 == IF capped THEN 150 ELSE (3 * var_num) \div 1960000
        r3 == IF capped THEN 0 ELSE (3 * var_num) % 1960000
        whole == 200 + (n1 \div 100000) - (opposition \div 200) - q3
        frac == (n1 % 100000) * 98 - (opposition % 200) * 49000 - r3 * 5
    IN  [whole |-> whole + (frac \div ConfDen), frac |-> frac % ConfDen]
confidence_raw(abs_score, agreement, opposition, var_num) ==
    LET n1 == abs_score * (50000 + agreement)
        capped == 3 * var_num >= 150 * 1960000
        q3 == IF capped THEN 150 ELSE (3 * var_num) \div 1960000
        r3 == IF capped THEN 0 ELSE (3 * var_num) % 1960000
        whole == 200 + (n1 \div 100000) - (opposition \div 200) - q3
        frac == (n1 % 100000) * 98 - (opposition % 200) * 49000 - r3 * 5
    IN  [whole |-> whole + (frac \div ConfDen), frac |-> frac % ConfDen]

\* round(min(95.0, max(15.0, x)), 1)
confidence_unfloored(abs_score, agreement, opposition, var_num) ==
    LET x == confidence_raw(abs_score, agreement, opposition, var_num)
    IN  IF x.whole >= 950 THEN 950
        ELSE x.whole + RoundDiv(x.frac + (x.whole % 2) * ConfDen, ConfDen) - (x.whole % 2)
confidence_of(abs_score, agreement, opposition, var_num) ==
    LET x == confidence_raw(abs_score, agreement, opposition, var_num)
    IN  IF x.whole >= 950 THEN 950
        ELSE IF x.whole < 150 THEN 150
        ELSE x.whole + RoundDiv(x.frac + (x.whole % 2) * ConfDen, ConfDen) - (x.whole % 2)

\* predictor.py:1189-1200.
signal_label(signal) ==
    IF signal > 500 THEN "Strong Bullish"
    ELSE IF signal > 150 THEN "Bullish"
    ELSE IF signal > 0 - 150 THEN "Neutral"
    ELSE IF signal > 0 - 500 THEN "Bearish"
    ELSE "Strong Bearish"

\* max(signals, key=lambda k: abs(signals[k])): the first key, in the dict's
\* order, of greatest |signal| (predictor.py:1206).
strongest_key(sigs) ==
    LET best == CHOOSE i \in 1..Len(SIGNAL_ORDER) :
                    /\ \A j \in 1..Len(SIGNAL_ORDER) :
                          Abs(sigs[SIGNAL_ORDER[j]]) <= Abs(sigs[SIGNAL_ORDER[i]])
                    /\ \A j \in 1..(i - 1) :
                          Abs(sigs[SIGNAL_ORDER[j]]) < Abs(sigs[SIGNAL_ORDER[i]])
    IN  SIGNAL_ORDER[best]

\* predictor.py:1203-1233: what the summary sentence is made of.
generate_summary(recommendation, confidence, score, sigs, technical) ==
    [direction |-> IF score > 0 THEN "upward"
                   ELSE IF score < 0 THEN "downward" ELSE "sideways",
     n_signals |-> Cardinality(DOMAIN sigs),
     recommendation |-> recommendation,
     confidence |-> confidence,
     strongest |-> strongest_key(sigs),
     rsi_val |-> technical.rsi.value,
     ma_position |-> technical.ma_trend.position]

\* StockData.get_analyst_targets (stock_data.py:204-228): None when the info
\* fetch raises, or the mean target, the price or the analyst count is missing.
stock_get_analyst_targets(t) ==
    IF t.raises \/ t.mean = NoValue \/ t.mean = 0
       \/ t.current = NoValue \/ t.current = 0 \/ t.num = 0
    THEN [none |-> TRUE]
    ELSE [none |-> FALSE, current_price |-> t.current, target_low |-> t.low,
          target_high |-> t.high, target_mean |-> t.mean]

\* StockPredictor.get_analyst_targets (predictor.py:1271-1318): target_low -
\* current and target_high - current are a TypeError on a missing target.
get_analyst_targets(t) ==
    LET targets == stock_get_analyst_targets(t)
    IN  IF targets.none THEN [raised |-> FALSE, none |-> TRUE, upside_pct |-> 0]
        ELSE IF targets.target_low = NoValue \/ targets.target_high = NoValue
        THEN [raised |-> TRUE, none |-> TRUE, upside_pct |-> 0]
        ELSE [raised |-> FALSE, none |-> FALSE,
              upside_pct |-> RoundDiv((targets.target_mean - targets.current_price) * 1000,
                                      targets.current_price)]

-----------------------------------------------------------------------------
(* State *)

MaxRuns == 2
MaxTicks == 1

NotRun == [signal |-> 0, interpretation |-> "not run"]
NoResults ==
    [weekday |-> NotRun, seasonal |-> NotRun, technical |-> NotRun,
     sentiment |-> NotRun, bollinger |-> NotRun, volume_trend |-> NotRun,
     atr |-> NotRun, historical_pattern |-> NotRun, ml_result |-> NotRun,
     stochastic |-> NotRun, relative_strength |-> NotRun]
NoSignals == <<>>
NoScore == [scored |-> FALSE]
NoPrediction == [returned |-> FALSE]
NoProbe == [applied |-> FALSE]
NoFetches == [p2y |-> 0, p5y |-> 0]

readings == Readings(provider.profile)

\* StockPredictor.__init__ (predictor.py:27-31) and the state before any call.
Init ==
    /\ provider \in Providers
    /\ clock = [ticks |-> 0, weekday |-> 6]
    /\ WEIGHTS = WEIGHTS_TABLE
    /\ hist_2y = None
    /\ hist_5y = None
    /\ fetches = NoFetches
    /\ pc = "idle"
    /\ results = NoResults
    /\ signals = NoSignals
    /\ scored = NoScore
    /\ prediction = NoPrediction
    /\ prev = NoPrediction
    /\ runs = 0
    /\ probe = NoProbe

\* A day passes between two calls.
Tick ==
    /\ pc \in {"idle", "returned", "raised"}
    /\ clock.ticks < MaxTicks
    /\ clock' = [ticks |-> clock.ticks + 1, weekday |-> (clock.weekday + 1) % 7]
    /\ UNCHANGED <<provider, WEIGHTS, hist_2y, hist_5y, fetches, pc, results,
                   signals, scored, prediction, prev, runs, probe>>

\* A caller invokes get_prediction(), on this predictor or (fresh) on a newly
\* constructed one, as app.py:134-135 does.
Call ==
    /\ pc \in {"idle", "returned", "raised"}
    /\ runs < MaxRuns
    /\ \E fresh \in BOOLEAN :
          /\ hist_2y' = IF fresh THEN None ELSE hist_2y
          /\ hist_5y' = IF fresh THEN None ELSE hist_5y
    /\ runs' = runs + 1
    /\ pc' = "weekday"
    /\ fetches' = NoFetches
    /\ results' = NoResults
    /\ signals' = NoSignals
    /\ scored' = NoScore
    /\ prev' = prediction
    /\ prediction' = NoPrediction
    /\ UNCHANGED <<provider, clock, WEIGHTS, probe>>

\* _get_history_2y / _get_history_5y (predictor.py:33-41): fetch when the
\* cache holds None.
cached_or_fetch_shrinking(cache, response) ==
    IF cache.none THEN response
    ELSE Series(IF cache.len > 0 THEN cache.len - 1 ELSE 0)
cached_or_fetch(cache, response) == IF cache.none THEN response ELSE cache

get_history_2y ==
    /\ hist_2y' = cached_or_fetch(hist_2y, provider.hist2y)
    /\ fetches' = [fetches EXCEPT !.p2y = @ + (IF hist_2y.none THEN 1 ELSE 0)]
    /\ UNCHANGED hist_5y

\* An analyzer that derives columns: `hist = hist.copy()` (predictor.py:49) or
\* `df = hist.copy()` (629, 714), then `hist[c] = ...` on the copy.  The value
\* is the cached frame once the columns are assigned.
derive_columns_in_place(cache, cols) == [cache EXCEPT !.cols = @ \cup cols]
derive_columns_on_copy(cache, cols) == cache

\* _get_history_2y() called by an analyzer that returns early under min_len
\* rows and derives cols otherwise (a frame without 'Close' raises before the
\* first assignment).
get_history_2y_deriving(min_len, cols) ==
    /\ hist_2y' = LET hist == cached_or_fetch(hist_2y, provider.hist2y)
                  IN  IF hist.none \/ hist.len < min_len \/ readings.malformed
                      THEN hist
                      ELSE derive_columns_on_copy(hist, cols)
    /\ fetches' = [fetches EXCEPT !.p2y = @ + (IF hist_2y.none THEN 1 ELSE 0)]
    /\ UNCHANGED hist_5y

get_history_5y ==
    /\ hist_5y' = cached_or_fetch(hist_5y, provider.hist5y)
    /\ fetches' = [fetches EXCEPT !.p5y = @ + (IF hist_5y.none THEN 1 ELSE 0)]
    /\ UNCHANGED hist_2y

Frame == UNCHANGED <<provider, clock, WEIGHTS, signals, scored, prediction,
                     prev, runs, probe>>

StepWeekday ==
    /\ pc = "weekday"
    /\ get_history_2y_deriving(30, {"daily_return", "weekday", "recency_weight"})
    /\ results' = [results EXCEPT !.weekday = analyze_weekday(hist_2y', readings, clock)]
    /\ pc' = "seasonal"
    /\ Frame

StepSeasonal ==
    /\ pc = "seasonal"
    /\ get_history_5y
    /\ results' = [results EXCEPT !.seasonal = analyze_seasonal(hist_5y', readings)]
    /\ pc' = "technical"
    /\ Frame

StepTechnical ==
    /\ pc = "technical"
    /\ get_history_2y
    /\ results' = [results EXCEPT !.technical = analyze_technical(hist_2y', readings)]
    /\ pc' = "sentiment"
    /\ Frame

StepSentiment ==
    /\ pc = "sentiment"
    /\ results' = [results EXCEPT !.sentiment = analyze_sentiment(provider.news, clock)]
    /\ pc' = "bollinger"
    /\ UNCHANGED <<hist_2y, hist_5y, fetches>>
    /\ Frame

StepBollinger ==
    /\ pc = "bollinger"
    /\ get_history_2y
    /\ results' = [results EXCEPT !.bollinger = analyze_bollinger(hist_2y', readings)]
    /\ pc' = "volume_trend"
    /\ Frame

StepVolumeTrend ==
    /\ pc = "volume_trend"
    /\ get_history_2y
    /\ results' = [results EXCEPT !.volume_trend = analyze_volume_trend(hist_2y', readings)]
    /\ pc' = "atr"
    /\ Frame

StepAtr ==
    /\ pc = "atr"
    /\ get_history_2y
    /\ results' = [results EXCEPT !.atr = analyze_atr(hist_2y', readings)]
    /\ pc' = "historical_pattern"
    /\ Frame

StepHistoricalPattern ==
    /\ pc = "historical_pattern"
    /\ get_history_2y_deriving(252, {"daily_return"})
    /\ results' = [results EXCEPT
                      !.historical_pattern = analyze_historical_pattern(hist_2y', readings)]
    /\ pc' = "ml"
    /\ Frame

StepMl ==
    /\ pc = "ml"
    /\ get_history_2y_deriving(300, {"return_1d", "rsi", "stoch_k", "dow", "month", "target"})
    /\ results' = [results EXCEPT !.ml_result = analyze_ml(hist_2y', readings)]
    /\ pc' = "stochastic"
    /\ Frame

StepStochastic ==
    /\ pc = "stochastic"
    /\ get_history_2y
    /\ results' = [results EXCEPT !.stochastic = analyze_stochastic(hist_2y', readings)]
    /\ pc' = "relative_strength"
    /\ Frame

StepRelativeStrength ==
    /\ pc = "relative_strength"
    /\ get_history_2y
    /\ results' = [results EXCEPT
                      !.relative_strength =
                          analyze_relative_strength(hist_2y', readings, provider.spy)]
    /\ pc' = "signals"
    /\ Frame

\* predictor.py:1000-1021
BuildSignals ==
    /\ pc = "signals"
    /\ signals' = build_signals(results)
    /\ pc' = "combine"
    /\ UNCHANGED <<provider, clock, WEIGHTS, hist_2y, hist_5y, fetches, results,
                   scored, prediction, prev, runs, probe>>

\* predictor.py:1023-1168.  signals[key] for a key of WEIGHTS that the map lacks
\* (1024) and self.WEIGHTS[name] for a name the table lacks (1063-1160) are a
\* KeyError, which nothing catches.
Combine ==
    /\ pc = "combine"
    /\ IF DOMAIN WEIGHTS # DOMAIN signals
       THEN /\ pc' = "raised"
            /\ UNCHANGED scored
       ELSE /\ LET combined_score == combined_score_of(signals, WEIGHTS)
                   recommendation == recommendation_of(combined_score)
                   weighted_agreement == weighted_agreement_of(signals, WEIGHTS, combined_score)
                   weighted_opposition == weighted_opposition_of(signals, WEIGHTS, combined_score)
                   var_num == variance_numerator(signals)
                   confidence == confidence_of(Abs(combined_score), weighted_agreement,
                                               weighted_opposition, var_num)
               IN  scored' =
                       [scored |-> TRUE,
                        combined_score |-> combined_score,
                        recommendation |-> recommendation,
                        weighted_agreement |-> weighted_agreement,
                        weighted_opposition |-> weighted_opposition,
                        var_num |-> var_num,
                        confidence |-> confidence,
                        signal_breakdown |->
                            [k \in DOMAIN signals |->
                                [signal |-> signals[k], label |-> signal_label(signals[k]),
                                 weight |-> WEIGHTS[k]]],
                        summary |-> generate_summary(recommendation, confidence, combined_score,
                                                     signals, results.technical)]
            /\ pc' = "analyst_targets"
    /\ UNCHANGED <<provider, clock, WEIGHTS, hist_2y, hist_5y, fetches, results,
                   signals, prediction, prev, runs, probe>>

\* predictor.py:1170-1187: the analyst targets, then the returned dict; an
\* exception of get_analyst_targets leaves get_prediction().
Return ==
    /\ pc = "analyst_targets"
    /\ LET analyst_targets == get_analyst_targets(provider.targets)
       IN  IF analyst_targets.raised
           THEN /\ pc' = "raised"
                /\ UNCHANGED prediction
           ELSE /\ pc' = "returned"
                /\ prediction' =
                       [returned |-> TRUE,
                        recommendation |-> scored.recommendation,
                        confidence |-> scored.confidence,
                        combined_score |-> scored.combined_score,
                        signal_breakdown |-> scored.signal_breakdown,
                        summary |-> scored.summary,
                        analyst_targets |-> analyst_targets,
                        generated_at |-> clock]
    /\ UNCHANGED <<provider, clock, WEIGHTS, hist_2y, hist_5y, fetches, results,
                   signals, scored, prev, runs, probe>>

Next ==
    \/ Tick
    \/ Call
    \/ StepWeekday
    \/ StepSeasonal
    \/ StepTechnical
    \/ StepSentiment
    \/ StepBollinger
    \/ StepVolumeTrend
    \/ StepAtr
    \/ StepHistoricalPattern
    \/ StepMl
    \/ StepStochastic
    \/ StepRelativeStrength
    \/ BuildSignals
    \/ Combine
    \/ Return

Spec == Init /\ [][Next]_vars

-----------------------------------------------------------------------------
(* The aggregator alone: get_prediction() from the signal map on
   (predictor.py:1023-1187), over signal maps drawn from a bounded family. *)

MaxDeviations == 2
SignalGrid == {0 - 1000, 0 - 250, 0, 250, 1000}

\* Every analyzer returned its insufficient-data result.
EmptyResults ==
    [NoResults EXCEPT !.technical = empty_technical_result,
                      !.seasonal = empty_seasonal_result]

AggProvider ==
    [hist2y |-> None, hist5y |-> None, profile |-> "calm", news |-> "empty",
     targets |-> [raises |-> FALSE, mean |-> 15000, low |-> 12000, high |-> 18000,
                  current |-> 10000, num |-> 5],
     spy |-> "ok"]

\* The maps that hold one grid value everywhere but on at most MaxDeviations keys.
InitAgg ==
    /\ provider = AggProvider
    /\ clock = [ticks |-> 0, weekday |-> 6]
    /\ WEIGHTS = WEIGHTS_TABLE
    /\ hist_2y = None
    /\ hist_5y = None
    /\ fetches = NoFetches
    /\ pc = "combine"
    /\ results = EmptyResults
    /\ \E base \in SignalGrid :
         \E S \in {T \in SUBSET SignalNames : Cardinality(T) <= MaxDeviations} :
           \E f \in [S -> SignalGrid \ {base}] :
              signals = [k \in SignalNames |-> IF k \in S THEN f[k] ELSE base]
    /\ scored = NoScore
    /\ prediction = NoPrediction
    /\ prev = NoPrediction
    /\ runs = 1
    /\ probe = NoProbe

NextAgg ==
    \/ Combine

SpecAgg == InitAgg /\ [][NextAgg]_vars

-----------------------------------------------------------------------------
(* The confidence formula alone (predictor.py:1055-1056), applied to two
   agreement terms with everything else equal. *)

GridSteps == 4

AbsScores == {(1000 * i) \div GridSteps : i \in 1..GridSteps}
Agreements == {(100000 * i) \div (2 * GridSteps) : i \in 0..(2 * GridSteps)}
Oppositions == {(100000 * i) \div GridSteps : i \in 0..GridSteps}
VarNums == {(196000000 \div GridSteps) * i : i \in 0..GridSteps}

\* Terms a signal map can produce: |score| <= agreement, and agreement and
\* opposition weigh disjoint signals.
InitConf ==
    /\ provider = AggProvider
    /\ clock = [ticks |-> 0, weekday |-> 6]
    /\ WEIGHTS = WEIGHTS_TABLE
    /\ hist_2y = None
    /\ hist_5y = None
    /\ fetches = NoFetches
    /\ pc = "idle"
    /\ results = NoResults
    /\ signals = NoSignals
    /\ scored = NoScore
    /\ prediction = NoPrediction
    /\ prev = NoPrediction
    /\ runs = 0
    /\ \E s \in AbsScores, lo \in Agreements, hi \in Agreements,
          o \in Oppositions, v \in VarNums :
          /\ lo < hi
          /\ s * 100 <= lo + 50
          /\ hi + o <= 100000
          /\ probe = [applied |-> FALSE, abs_score |-> s, agreement_lo |-> lo,
                      agreement_hi |-> hi, opposition |-> o, var_num |-> v,
                      confidence_lo |-> 0, confidence_hi |-> 0]

ApplyConfidence ==
    /\ ~probe.applied
    /\ probe' = [probe EXCEPT
                    !.applied = TRUE,
                    !.confidence_lo = confidence_of(probe.abs_score, probe.agreement_lo,
                                                    probe.opposition, probe.var_num),
                    !.confidence_hi = confidence_of(probe.abs_score, probe.agreement_hi,
                                                    probe.opposition, probe.var_num)]
    /\ UNCHANGED <<provider, clock, WEIGHTS, hist_2y, hist_5y, fetches, pc, results,
                   signals, scored, prediction, prev, runs>>

NextConf == ApplyConfidence

SpecConf == InitConf /\ [][NextConf]_vars

-----------------------------------------------------------------------------
(* A predictor whose class attribute WEIGHTS was configured otherwise
   (predictor.py:10-25 is a plain dict, and __init__ reads nothing of it). *)

\* The table as shipped, one that sums to 1.03, and one that sums to 1.0 but
\* names 'momentum', a signal get_prediction() does not build.
WeightTables ==
    {WEIGHTS_TABLE,
     [WEIGHTS_TABLE EXCEPT !.seasonal = 5],
     [k \in (SignalNames \ {"seasonal"}) \cup {"momentum"} |->
         IF k = "momentum" THEN 2 ELSE WEIGHTS_TABLE[k]]}

\* StockPredictor.__init__ (predictor.py:27-31) accepts whatever the table is.
InitCfg ==
    /\ provider \in {p \in Providers :
                        /\ p.hist5y = None
                        /\ p.news = "empty"
                        /\ p.spy = "ok"
                        /\ p.targets.num = 5 /\ p.targets.low # NoValue}
    /\ clock = [ticks |-> 0, weekday |-> 6]
    /\ WEIGHTS \in WeightTables
    /\ hist_2y = None
    /\ hist_5y = None
    /\ fetches = NoFetches
    /\ pc = "idle"
    /\ results = NoResults
    /\ signals = NoSignals
    /\ scored = NoScore
    /\ prediction = NoPrediction
    /\ prev = NoPrediction
    /\ runs = 0
    /\ probe = NoProbe

SpecCfg == InitCfg /\ [][Next]_vars

-----------------------------------------------------------------------------
(* The weekly trend alone: analyze_seasonal's weekly_trend (predictor.py:154-180)
   and the signal the aggregator derives from it (1017-1021), over every sign
   pattern of the weekly returns. *)

\* hist['Close'].resample('W').last().tail(5): five weekly closes, so at most
\* four weekly returns.
WeeklyWindow == 5

WeeklyReturnSeqs ==
    UNION {[1..n -> {0 - 1, 0, 1}] : n \in 0..(WeeklyWindow - 1)}

InitWeekly ==
    /\ provider = AggProvider
    /\ clock = [ticks |-> 0, weekday |-> 6]
    /\ WEIGHTS = WEIGHTS_TABLE
    /\ hist_2y = None
    /\ hist_5y = None
    /\ fetches = NoFetches
    /\ pc = "idle"
    /\ results = NoResults
    /\ signals = NoSignals
    /\ scored = NoScore
    /\ prediction = NoPrediction
    /\ prev = NoPrediction
    /\ runs = 0
    /\ \E w \in WeeklyReturnSeqs :
          probe = [applied |-> FALSE, weekly_returns |-> w,
                   weekly_trend |-> empty_seasonal_result.weekly_trend,
                   signal |-> 0]

ApplyWeeklyTrend ==
    /\ ~probe.applied
    /\ LET weekly_trend == weekly_trend_of(probe.weekly_returns)
           seasonal == [empty_seasonal_result EXCEPT !.weekly_trend = weekly_trend]
       IN  probe' = [probe EXCEPT
                        !.applied = TRUE,
                        !.weekly_trend = weekly_trend,
                        !.signal = build_signals([EmptyResults EXCEPT
                                                     !.seasonal = seasonal]).weekly_trend]
    /\ UNCHANGED <<provider, clock, WEIGHTS, hist_2y, hist_5y, fetches, pc, results,
                   signals, scored, prediction, prev, runs>>

NextWeekly == ApplyWeeklyTrend

SpecWeekly == InitWeekly /\ [][NextWeekly]_vars

-----------------------------------------------------------------------------
(* The crossover check alone (predictor.py:285-294), over every way MA50 can
   lie below, on or above MA200 on each of the last five bars. *)

MaLevels == {9900, 10000, 10100}

InitCross ==
    /\ provider = AggProvider
    /\ clock = [ticks |-> 0, weekday |-> 6]
    /\ WEIGHTS = WEIGHTS_TABLE
    /\ hist_2y = None
    /\ hist_5y = None
    /\ fetches = NoFetches
    /\ pc = "idle"
    /\ results = NoResults
    /\ signals = NoSignals
    /\ scored = NoScore
    /\ prediction = NoPrediction
    /\ prev = NoPrediction
    /\ runs = 0
    /\ \E ma50 \in [1..CrossWindow -> MaLevels] :
          probe = [applied |-> FALSE, ma50_recent |-> ma50,
                   ma200_recent |-> [i \in 1..CrossWindow |-> 10000],
                   crossovers |-> <<>>]

ApplyCrossovers ==
    /\ ~probe.applied
    /\ probe' = [probe EXCEPT
                    !.applied = TRUE,
                    !.crossovers = crossovers_of(probe.ma50_recent, probe.ma200_recent)]
    /\ UNCHANGED <<provider, clock, WEIGHTS, hist_2y, hist_5y, fetches, pc, results,
                   signals, scored, prediction, prev, runs>>

NextCross == ApplyCrossovers

SpecCross == InitCross /\ [][NextCross]_vars

-----------------------------------------------------------------------------
(* analyze_historical_pattern alone (predictor.py:623-686), over series
   lengths around the point where the one-year lookback falls off the series
   and over every mix of falling, flat and rising lookback dates. *)

\* 252 and 253 rows: the one-year target index is -1 and 0 (the first row).
PatternLengths == {252, 253, 254, 300}

\* day_return * 0.6 + context_return * 0.4 on a lookback date, in 1e-4.
PatternReturns == {0 - 300, 50, 200}

InitPattern ==
    /\ provider = AggProvider
    /\ clock = [ticks |-> 0, weekday |-> 6]
    /\ WEIGHTS = WEIGHTS_TABLE
    /\ hist_2y = None
    /\ hist_5y = None
    /\ fetches = NoFetches
    /\ pc = "idle"
    /\ results = NoResults
    /\ signals = NoSignals
    /\ scored = NoScore
    /\ prediction = NoPrediction
    /\ prev = NoPrediction
    /\ runs = 0
    /\ \E n \in PatternLengths, cr \in [{5, 21, 63, 126, 252} -> PatternReturns] :
          probe = [applied |-> FALSE, hist |-> Series(n), combined_return |-> cr,
                   result |-> empty_historical_result]

ApplyHistoricalPattern ==
    /\ ~probe.applied
    /\ probe' = [probe EXCEPT
                    !.applied = TRUE,
                    !.result = analyze_historical_pattern(
                                   probe.hist,
                                   [malformed |-> FALSE,
                                    combined_return |-> probe.combined_return])]
    /\ UNCHANGED <<provider, clock, WEIGHTS, hist_2y, hist_5y, fetches, pc, results,
                   signals, scored, prediction, prev, runs>>

NextPattern == ApplyHistoricalPattern

SpecPattern == InitPattern /\ [][NextPattern]_vars

-----------------------------------------------------------------------------
(* analyze_ml's accuracy estimate alone (predictor.py:818-844): the folds cut
   from the clean rows, and the mean of the accuracies the fold models score. *)

\* len(df_clean): at least 200 (predictor.py:818), with every remainder of the
\* division by 5.
CleanRowCounts == {200, 201, 202, 203, 204, 249}

\* fold_model.score(X_vl, y_vl), in thousandths.
FoldScores == {400, 550, 700}

InitFolds ==
    /\ provider = AggProvider
    /\ clock = [ticks |-> 0, weekday |-> 6]
    /\ WEIGHTS = WEIGHTS_TABLE
    /\ hist_2y = None
    /\ hist_5y = None
    /\ fetches = NoFetches
    /\ pc = "idle"
    /\ results = NoResults
    /\ signals = NoSignals
    /\ scored = NoScore
    /\ prediction = NoPrediction
    /\ prev = NoPrediction
    /\ runs = 0
    /\ \E n \in CleanRowCounts, sc \in [{0, 1, 2} -> FoldScores] :
          probe = [applied |-> FALSE, X |-> [i \in 1..n |-> i], scores |-> sc,
                   folds |-> <<>>, avg_accuracy |-> 500]

ApplyWalkForward ==
    /\ ~probe.applied
    /\ LET folds == walk_forward_folds(probe.X)
           accuracies == [k \in 1..Len(folds) |-> probe.scores[folds[k].fold]]
       IN  probe' = [probe EXCEPT
                        !.applied = TRUE,
                        !.folds = folds,
                        !.avg_accuracy = avg_accuracy_of(accuracies)]
    /\ UNCHANGED <<provider, clock, WEIGHTS, hist_2y, hist_5y, fetches, pc, results,
                   signals, scored, prediction, prev, runs>>

NextFolds == ApplyWalkForward

SpecFolds == InitFolds /\ [][NextFolds]_vars

-----------------------------------------------------------------------------
(* analyze_ml's signal alone (predictor.py:861-868), over probabilities on
   both sides of one rounding step and accuracies around the 0.3 floor. *)

\* proba[1], in 1e-4.
Probabilities == {0, 2500, 4990, 4995, 5000, 5005, 5010, 5335, 7500, 10000}

\* avg_accuracy, in thousandths.
Accuracies == {400, 500, 575, 576, 600, 700, 750, 800, 1000}

InitMl ==
    /\ provider = AggProvider
    /\ clock = [ticks |-> 0, weekday |-> 6]
    /\ WEIGHTS = WEIGHTS_TABLE
    /\ hist_2y = None
    /\ hist_5y = None
    /\ fetches = NoFetches
    /\ pc = "idle"
    /\ results = NoResults
    /\ signals = NoSignals
    /\ scored = NoScore
    /\ prediction = NoPrediction
    /\ prev = NoPrediction
    /\ runs = 0
    /\ \E p \in Probabilities, a \in Accuracies :
          probe = [applied |-> FALSE, prob_positive |-> p, avg_accuracy |-> a,
                   raw |-> 0, adjusted |-> 0]

ApplyMlSignal ==
    /\ ~probe.applied
    /\ LET s == ml_signal(probe.prob_positive, probe.avg_accuracy)
       IN  probe' = [probe EXCEPT !.applied = TRUE, !.raw = s.raw,
                                  !.adjusted = s.adjusted]
    /\ UNCHANGED <<provider, clock, WEIGHTS, hist_2y, hist_5y, fetches, pc, results,
                   signals, scored, prediction, prev, runs>>

NextMl == ApplyMlSignal

SpecMl == InitMl /\ [][NextMl]_vars

-----------------------------------------------------------------------------
(* analyze_sentiment over one or two scored headlines of every age band
   (predictor.py:918-975).  The clock reads hour 1000. *)

\* Publish times, in hours: unknown (0), 10 h, exactly 24 h, 60 h, 150 h and
\* 500 h before now.
PublishTimes == {0, 990, 976, 940, 850, 500}

\* The label and score _analyze_sentiment gave the title.
ScoredTitles ==
    {[sentiment |-> "positive", sentiment_score |-> 1000],
     [sentiment |-> "negative", sentiment_score |-> 0 - 333],
     [sentiment |-> "neutral",  sentiment_score |-> 0]}

Articles ==
    {[sentiment |-> t.sentiment, sentiment_score |-> t.sentiment_score, published |-> p] :
        t \in ScoredTitles, p \in PublishTimes}

InitSentiment ==
    /\ provider = AggProvider
    /\ clock = [ticks |-> 0, weekday |-> 6]
    /\ WEIGHTS = WEIGHTS_TABLE
    /\ hist_2y = None
    /\ hist_5y = None
    /\ fetches = NoFetches
    /\ pc = "idle"
    /\ results = NoResults
    /\ signals = NoSignals
    /\ scored = NoScore
    /\ prediction = NoPrediction
    /\ prev = NoPrediction
    /\ runs = 0
    /\ \E a \in Articles, b \in Articles, one \in BOOLEAN :
          probe = [applied |-> FALSE,
                   articles |-> IF one THEN <<a>> ELSE <<a, b>>,
                   result |-> empty_sentiment_result]

ApplySentiment ==
    /\ ~probe.applied
    /\ probe' = [probe EXCEPT !.applied = TRUE,
                              !.result = sentiment_of(probe.articles, clock)]
    /\ UNCHANGED <<provider, clock, WEIGHTS, hist_2y, hist_5y, fetches, pc, results,
                   signals, scored, prediction, prev, runs>>

NextSentiment == ApplySentiment

SpecSentiment == InitSentiment /\ [][NextSentiment]_vars

-----------------------------------------------------------------------------
(* StockData._analyze_sentiment (stock_data.py:230-315) over titles of up to
   MaxWords whitespace-separated lowercase words.  The lexicons are cut down to
   the words below; a phrase is two adjacent words, which for this vocabulary
   is when the phrase is a substring of the title. *)

positive_words == {"gain", "beat", "strong"}
negative_words == {"loss", "miss"}
positive_phrases == {<<"beat", "expectations">>, <<"strong", "demand">>}
negative_phrases == {<<"revenue", "miss">>}
negation_words == {"not"}

Vocabulary ==
    positive_words \cup negative_words \cup negation_words
        \cup {"expectations", "demand", "revenue"}

MaxWords == 4

Titles == UNION {[1..n -> Vocabulary] : n \in 0..MaxWords}

\* phrase in text_lower
phrase_in(phrase, words) ==
    \E i \in 1..(Len(words) - 1) : words[i] = phrase[1] /\ words[i + 1] = phrase[2]

\* stock_data.py:277-315; the score in thousandths.
stock_analyze_sentiment_phrase_as_word(words) ==
    LET idx == DOMAIN words
        negated(i) == i > 1 /\ words[i - 1] \in negation_words
        positive_count ==
            Cardinality({ph \in positive_phrases : phrase_in(ph, words)})
            + Cardinality({i \in idx : words[i] \in positive_words /\ ~negated(i)})
            + Cardinality({i \in idx : words[i] \in negative_words /\ negated(i)})
        negative_count ==
            Cardinality({ph \in negative_phrases : phrase_in(ph, words)})
            + Cardinality({i \in idx : words[i] \in positive_words /\ negated(i)})
            + Cardinality({i \in idx : words[i] \in negative_words /\ ~negated(i)})
        total == positive_count + negative_count
        diff == positive_count - negative_count
    IN  [label |-> IF total # 0 /\ 20 * diff > total THEN "positive"
                   ELSE IF total # 0 /\ 20 * diff < 0 - total THEN "negative"
                   ELSE "neutral",
         score |-> IF total = 0 THEN 0 ELSE RoundDiv(1000 * diff, total)]
stock_analyze_sentiment(words) ==
    LET idx == DOMAIN words
        negated(i) == i > 1 /\ words[i - 1] \in negation_words
        positive_count ==
            3 * Cardinality({ph \in positive_phrases : phrase_in(ph, words)})
            + Cardinality({i \in idx : words[i] \in positive_words /\ ~negated(i)})
            + Cardinality({i \in idx : words[i] \in negative_words /\ negated(i)})
        negative_count ==
            3 * Cardinality({ph \in negative_phrases : phrase_in(ph, words)})
            + Cardinality({i \in idx : words[i] \in positive_words /\ negated(i)})
            + Cardinality({i \in idx : words[i] \in negative_words /\ ~negated(i)})
        total == positive_count + negative_count
        diff == positive_count - negative_count
    IN  [label |-> IF total # 0 /\ 20 * diff > total THEN "positive"
                   ELSE IF total # 0 /\ 20 * diff < 0 - total THEN "negative"
                   ELSE "neutral",
         score |-> IF total = 0 THEN 0 ELSE RoundDiv(1000 * diff, total)]

InitTitle ==
    /\ provider = AggProvider
    /\ clock = [ticks |-> 0, weekday |-> 6]
    /\ WEIGHTS = WEIGHTS_TABLE
    /\ hist_2y = None
    /\ hist_5y = None
    /\ fetches = NoFetches
    /\ pc = "idle"
    /\ results = NoResults
    /\ signals = NoSignals
    /\ scored = NoScore
    /\ prediction = NoPrediction
    /\ prev = NoPrediction
    /\ runs = 0
    /\ \E t \in Titles :
          probe = [applied |-> FALSE, words |-> t, label |-> "neutral", score |-> 0]

ApplyTitleSentiment ==
    /\ ~probe.applied
    /\ LET r == stock_analyze_sentiment(probe.words)
       IN  probe' = [probe EXCEPT !.applied = TRUE, !.label = r.label, !.score = r.score]
    /\ UNCHANGED <<provider, clock, WEIGHTS, hist_2y, hist_5y, fetches, pc, results,
                   signals, scored, prediction, prev, runs>>

NextTitle == ApplyTitleSentiment

SpecTitle == InitTitle /\ [][NextTitle]_vars

-----------------------------------------------------------------------------
(* The RSI mapping alone (predictor.py:228-240), applied to two readings so
   that the results can be compared. *)

\* rsi_value, in tenths: the ends of the scale, both sides of 30 and 70 one
\* tenth apart, and the reading of a series that did not move (0/0).
RsiValues == {0, 100, 250, 299, 300, 301, 400, 500, 699, 700, 701, 850, 1000, NaN}

InitRsi ==
    /\ provider = AggProvider
    /\ clock = [ticks |-> 0, weekday |-> 6]
    /\ WEIGHTS = WEIGHTS_TABLE
    /\ hist_2y = None
    /\ hist_5y = None
    /\ fetches = NoFetches
    /\ pc = "idle"
    /\ results = NoResults
    /\ signals = NoSignals
    /\ scored = NoScore
    /\ prediction = NoPrediction
    /\ prev = NoPrediction
    /\ runs = 0
    /\ \E a \in RsiValues, b \in RsiValues :
          probe = [applied |-> FALSE, rsi_a |-> a, rsi_b |-> b,
                   a |-> empty_technical_result.rsi, b |-> empty_technical_result.rsi]

ApplyRsi ==
    /\ ~probe.applied
    /\ probe' = [probe EXCEPT !.applied = TRUE,
                              !.a = rsi_result(probe.rsi_a),
                              !.b = rsi_result(probe.rsi_b)]
    /\ UNCHANGED <<provider, clock, WEIGHTS, hist_2y, hist_5y, fetches, pc, results,
                   signals, scored, prediction, prev, runs>>

NextRsi == ApplyRsi

SpecRsi == InitRsi /\ [][NextRsi]_vars

-----------------------------------------------------------------------------
(* analyze_weekday over the rows of each weekday (predictor.py:43-95).  Monday
   to Wednesday hold a fixed mixed sample; Thursday and Friday hold up to
   MaxDayRows rows each, possibly none. *)

MaxDayRows == 2

\* One row of hist: the sign of daily_return and whether the row is inside the
\* last six months.
DayRows == [daily_return : {0 - 1, 0, 1}, recent : BOOLEAN]

DaySamples == UNION {[1..n -> DayRows] : n \in 0..MaxDayRows}

MixedSample == <<[daily_return |-> 1, recent |-> TRUE], [daily_return |-> 0 - 1, recent |-> FALSE]>>

InitWeekday ==
    /\ provider = AggProvider
    /\ \E wd \in 0..6 : clock = [ticks |-> 0, weekday |-> wd]
    /\ WEIGHTS = WEIGHTS_TABLE
    /\ hist_2y = None
    /\ hist_5y = None
    /\ fetches = NoFetches
    /\ pc = "idle"
    /\ results = NoResults
    /\ signals = NoSignals
    /\ scored = NoScore
    /\ prediction = NoPrediction
    /\ prev = NoPrediction
    /\ runs = 0
    /\ \E thu \in DaySamples, fri \in DaySamples :
          probe = [applied |-> FALSE,
                   rows |-> [d \in 0..4 |-> IF d = 3 THEN thu
                                            ELSE IF d = 4 THEN fri ELSE MixedSample],
                   result |-> empty_weekday_result(clock)]

ApplyWeekday ==
    /\ ~probe.applied
    /\ probe' = [probe EXCEPT
                    !.applied = TRUE,
                    !.result = analyze_weekday(Series(30),
                                               [malformed |-> FALSE,
                                                weekday_pct |-> weekday_stats_of(probe.rows)],
                                               clock)]
    /\ UNCHANGED <<provider, clock, WEIGHTS, hist_2y, hist_5y, fetches, pc, results,
                   signals, scored, prediction, prev, runs>>

NextWeekday == ApplyWeekday

SpecWeekday == InitWeekday /\ [][NextWeekday]_vars

-----------------------------------------------------------------------------
(* analyze_ml's data preparation (predictor.py:804-856): the target column,
   the rows dropna keeps, the folds, the final model's training prefix and the
   row that is scored.  Rows of df are numbered 1..len(df). *)

\* The 200-day moving average (predictor.py:758) leaves the features of the
\* first 199 rows null.
FeatureWarmup == 199

\* len(df): from one row short of 200 clean rows upward, over every remainder
\* of the clean count by 5.
FrameLengths == {399, 400, 401, 402, 403, 404, 448}

\* predictor.py:804: (close.shift(-1) > close).astype(int).  On the last row
\* the shifted close is NaN, the comparison is False and the cast makes it 0.
ml_target(df_len, up) ==
    [i \in 1..df_len |-> IF i < df_len /\ up[i] THEN 1 ELSE 0]

\* predictor.py:816: the rows with no null among the features and the target.
\* The target column holds no null.
ml_dropna(df_len, latest_null) ==
    SelectSeq([i \in 1..df_len |-> i],
              LAMBDA i : i > FeatureWarmup /\ ~(i = df_len /\ latest_null))

\* predictor.py:818-856: what each model is trained and validated on, and the
\* row that is scored.
ml_training_sets(df_len, latest_null) ==
    LET X == ml_dropna(df_len, latest_null)
        split_idx == (Len(X) * 85) \div 100
    IN  IF Len(X) < 200
        THEN [returned |-> "empty", X |-> X, folds |-> <<>>, final |-> <<>>, latest |-> 0]
        ELSE [returned |-> IF latest_null THEN "empty" ELSE "scored",
              X |-> X,
              folds |-> walk_forward_folds(X),
              final |-> SubSeq(X, 1, split_idx),
              latest |-> IF latest_null THEN 0 ELSE df_len]

InitTrain ==
    /\ provider = AggProvider
    /\ clock = [ticks |-> 0, weekday |-> 6]
    /\ WEIGHTS = WEIGHTS_TABLE
    /\ hist_2y = None
    /\ hist_5y = None
    /\ fetches = NoFetches
    /\ pc = "idle"
    /\ results = NoResults
    /\ signals = NoSignals
    /\ scored = NoScore
    /\ prediction = NoPrediction
    /\ prev = NoPrediction
    /\ runs = 0
    /\ \E n \in FrameLengths, null \in BOOLEAN, tail \in [0..2 -> BOOLEAN] :
          probe = [applied |-> FALSE, df_len |-> n, latest_null |-> null,
                   up |-> [i \in 1..n |-> IF i >= n - 2 THEN tail[n - i] ELSE i % 2 = 0],
                   y |-> <<>>,
                   sets |-> [returned |-> "empty", X |-> <<>>, folds |-> <<>>,
                             final |-> <<>>, latest |-> 0]]

ApplyTrain ==
    /\ ~probe.applied
    /\ probe' = [probe EXCEPT
                    !.applied = TRUE,
                    !.y = ml_target(probe.df_len, probe.up),
                    !.sets = ml_training_sets(probe.df_len, probe.latest_null)]
    /\ UNCHANGED <<provider, clock, WEIGHTS, hist_2y, hist_5y, fetches, pc, results,
                   signals, scored, prediction, prev, runs>>

NextTrain == ApplyTrain

SpecTrain == InitTrain /\ [][NextTrain]_vars

-----------------------------------------------------------------------------
(* The Telegram trading bot (telegram_bot.py:20-283): /buy and /sell store a
   pending trade for the chat and send a prompt with Confirm and Cancel
   buttons; handle_trade_callback runs when a button is pressed.  The bot's
   state is kept in probe:
     pending   pending_trades
     prompts   the prompts sent: chat, the trade shown, the text now shown
     orders    the calls made to the traders: the trade, the prompt pressed
     commands, presses   how many commands and button presses were handled *)

MaxCommands == 2
MaxPresses == 3

\* The chat configured in notification_settings, and another one.
AuthorizedChat == 1
Chats == {1, 2}

\* pending_trades has no entry for the chat.
NoTrade == [action |-> "none"]

\* context.args of the commands tried.
CommandArgs == {<<"AAPL", "10">>, <<"BTC", "500usd">>, <<"AAPL", "0">>, <<"AAPL">>}

\* float(): the number, or NoValue for a ValueError.
float_of(str) ==
    CASE str = "10" -> 10
      [] str = "500" -> 500
      [] str = "0" -> 0
      [] OTHER -> NoValue

\* amount_str.replace('usd', '').replace('$', '')
amount_str_clean(amount_str) == IF amount_str = "500usd" THEN "500" ELSE amount_str

\* BinanceTrader.is_crypto_ticker (binance_trader.py:36-45)
is_crypto_ticker(ticker) == ticker = "BTC"

\* telegram_bot.py:147-164 and 215-232: the trade is stored under the chat and
\* the prompt showing it is sent.  The clock reading is the command's number.
store_pending(st, chat, trade) ==
    [st EXCEPT !.pending[chat] = trade,
               !.prompts = Append(@, [chat |-> chat, shown |-> trade, text |-> "Proceed?"])]

\* cmd_buy (telegram_bot.py:73-164) behind authorized_only (23-42).  price is
\* the price fetched, NoValue when the fetch raises.
cmd_buy(st, chat, args, price) ==
    IF chat # AuthorizedChat THEN st
    ELSE IF Len(args) < 2 THEN st
    ELSE LET ticker == args[1]
             amount_str == args[2]
             is_usd == amount_str = "500usd"
             amount == float_of(amount_str_clean(amount_str))
         IN  IF amount = NoValue THEN st
             ELSE IF amount <= 0 THEN st
             ELSE IF price = NoValue THEN st
             ELSE store_pending(st, chat,
                     [action |-> "buy", ticker |-> ticker,
                      is_crypto |-> is_crypto_ticker(ticker), is_usd |-> is_usd,
                      amount |-> amount, current_price |-> price,
                      timestamp |-> st.commands + 1])

\* cmd_sell (telegram_bot.py:167-232) behind authorized_only.
cmd_sell(st, chat, args, price) ==
    IF chat # AuthorizedChat THEN st
    ELSE IF Len(args) < 2 THEN st
    ELSE LET ticker == args[1]
             quantity == float_of(args[2])
         IN  IF quantity = NoValue THEN st
             ELSE IF quantity <= 0 THEN st
             ELSE IF price = NoValue THEN st
             ELSE store_pending(st, chat,
                     [action |-> "sell", ticker |-> ticker,
                      is_crypto |-> is_crypto_ticker(ticker), is_usd |-> FALSE,
                      amount |-> quantity, current_price |-> price,
                      timestamp |-> st.commands + 1])

\* handle_trade_callback (telegram_bot.py:235-283) for a press of `data` on
\* prompt p; raises tells whether the trader's call raises.
handle_trade_callback_peeking(st, p, data, raises) ==
    LET chat_id == st.prompts[p].chat
        trade == st.pending[chat_id]
        popped == st
    IN  IF trade = NoTrade
        THEN [popped EXCEPT !.prompts[p].text = "Trade expired or already processed."]
        ELSE IF data = "cancel_trade"
        THEN [popped EXCEPT !.prompts[p].text = "Trade cancelled."]
        ELSE [popped EXCEPT
                 !.orders = Append(@, [trade |-> trade, prompt |-> p]),
                 !.prompts[p].text = IF raises THEN "Order failed" ELSE "Order Executed"]
handle_trade_callback(st, p, data, raises) ==
    LET chat_id == st.prompts[p].chat
        trade == st.pending[chat_id]
        popped == [st EXCEPT !.pending[chat_id] = NoTrade]
    IN  IF trade = NoTrade
        THEN [popped EXCEPT !.prompts[p].text = "Trade expired or already processed."]
        ELSE IF data = "cancel_trade"
        THEN [popped EXCEPT !.prompts[p].text = "Trade cancelled."]
        ELSE [popped EXCEPT
                 !.orders = Append(@, [trade |-> trade, prompt |-> p]),
                 !.prompts[p].text = IF raises THEN "Order failed" ELSE "Order Executed"]

InitBot ==
    /\ provider = AggProvider
    /\ clock = [ticks |-> 0, weekday |-> 6]
    /\ WEIGHTS = WEIGHTS_TABLE
    /\ hist_2y = None
    /\ hist_5y = None
    /\ fetches = NoFetches
    /\ pc = "idle"
    /\ results = NoResults
    /\ signals = NoSignals
    /\ scored = NoScore
    /\ prediction = NoPrediction
    /\ prev = NoPrediction
    /\ runs = 0
    /\ probe = [pending |-> [c \in Chats |-> NoTrade], prompts |-> <<>>, orders |-> <<>>,
                commands |-> 0, presses |-> 0, pressed |-> 0]

CmdBuy ==
    /\ probe.commands < MaxCommands
    /\ \E chat \in Chats, args \in CommandArgs, price \in {NoValue, 100} :
          probe' = [cmd_buy(probe, chat, args, price) EXCEPT !.commands = @ + 1]
    /\ UNCHANGED <<provider, clock, WEIGHTS, hist_2y, hist_5y, fetches, pc, results,
                   signals, scored, prediction, prev, runs>>

CmdSell ==
    /\ probe.commands < MaxCommands
    /\ \E chat \in Chats, args \in CommandArgs, price \in {NoValue, 100} :
          probe' = [cmd_sell(probe, chat, args, price) EXCEPT !.commands = @ + 1]
    /\ UNCHANGED <<provider, clock, WEIGHTS, hist_2y, hist_5y, fetches, pc, results,
                   signals, scored, prediction, prev, runs>>

\* A button of one of the prompts is pressed.
TradeCallback ==
    /\ probe.presses < MaxPresses
    /\ \E p \in DOMAIN probe.prompts, data \in {"confirm_trade", "cancel_trade"},
          raises \in BOOLEAN :
          probe' = [handle_trade_callback(probe, p, data, raises) EXCEPT
                       !.presses = @ + 1, !.pressed = p]
    /\ UNCHANGED <<provider, clock, WEIGHTS, hist_2y, hist_5y, fetches, pc, results,
                   signals, scored, prediction, prev, runs>>

NextBot == CmdBuy \/ CmdSell \/ TradeCallback

SpecBot == InitBot /\ [][NextBot]_vars

-----------------------------------------------------------------------------
(* The flash-crash monitor (crash_monitor.py:13-118).  The scheduler runs
   check_for_crashes one run at a time (scheduler.py:54-60).  Its module state
   is kept in probe, with the wall clock:
     now               datetime.now(), in minutes
     intraday_highs, last_crash_alert, last_reset_date   the module's globals
     sent              the notifications sent: market type, time, tickers
     first             the tickers whose first price of the day the last run saw
     crashes           stock_crashes and crypto_crashes of the last run
   One ticker is monitored per market type. *)

MaxChecks == 3
MaxAdvances == 3

DayMinutes == 1440
CRASH_COOLDOWN_MINUTES == 30

Markets == {"stocks", "crypto"}
Monitors == [stocks |-> {"SPY"}, crypto |-> {"BTC-USD"}]
Tickers == {"SPY", "BTC-USD"}

\* crash_stock_threshold and crash_crypto_threshold, in percent.
Thresholds == [stocks |-> 3, crypto |-> 5]

\* get_current_price(): nothing, or a price.
Prices == {NoValue, 100, 96, 90}

\* How far the clock moves between two runs, in minutes.
Advances == {10, 20, DayMinutes}

\* _check_ticker (crash_monitor.py:75-110): the highs after the call and
\* whether a crash is reported.  highs maps the tickers seen today to their
\* high.
check_ticker(highs, ticker, price, threshold) ==
    IF price = NoValue THEN [highs |-> highs, crash |-> FALSE]
    ELSE IF ticker \notin DOMAIN highs
    THEN [highs |-> highs @@ (ticker :> price), crash |-> FALSE]
    ELSE LET high == IF price > highs[ticker] THEN price ELSE highs[ticker]
             after == [highs EXCEPT ![ticker] = high]
         IN  [highs |-> after,
              crash |-> high > 0 /\ (high - price) * 100 >= threshold * high]

\* _can_alert (crash_monitor.py:113-118); last maps the market types alerted
\* so far to the time of their last alert.
can_alert_any_market(last, market_type, now) ==
    \/ DOMAIN last = {}
    \/ \E m \in DOMAIN last : now - last[m] >= CRASH_COOLDOWN_MINUTES
can_alert(last, market_type, now) ==
    \/ market_type \notin DOMAIN last
    \/ now - last[market_type] >= CRASH_COOLDOWN_MINUTES

\* check_for_crashes (crash_monitor.py:21-72) with the prices the run reads.
check_for_crashes(st, enabled, price) ==
    IF ~enabled THEN [st EXCEPT !.first = {}, !.crashes = [m \in Markets |-> {}]]
    ELSE
        LET today == st.now \div DayMinutes
            highs0 == IF st.last_reset_date # today THEN <<>> ELSE st.intraday_highs
            spy == check_ticker(highs0, "SPY", price["SPY"], Thresholds.stocks)
            btc == check_ticker(spy.highs, "BTC-USD", price["BTC-USD"], Thresholds.crypto)
            crashes == [stocks |-> IF spy.crash THEN {"SPY"} ELSE {},
                        crypto |-> IF btc.crash THEN {"BTC-USD"} ELSE {}]
            alerting == {m \in Markets :
                            crashes[m] # {} /\ can_alert(st.last_crash_alert, m, st.now)}
            order == <<"stocks", "crypto">>
            notes == SelectSeq([i \in 1..2 |-> [market |-> order[i], at |-> st.now,
                                                tickers |-> crashes[order[i]]]],
                               LAMBDA n : n.market \in alerting)
        IN  [st EXCEPT
                !.intraday_highs = btc.highs,
                !.last_reset_date = today,
                !.last_crash_alert =
                    [m \in DOMAIN st.last_crash_alert \cup alerting |->
                        IF m \in alerting THEN st.now ELSE st.last_crash_alert[m]],
                !.sent = @ \o notes,
                !.crashes = crashes,
                !.first = {t \in Tickers : t \notin DOMAIN highs0 /\ price[t] # NoValue}]

InitCrash ==
    /\ provider = AggProvider
    /\ clock = [ticks |-> 0, weekday |-> 6]
    /\ WEIGHTS = WEIGHTS_TABLE
    /\ hist_2y = None
    /\ hist_5y = None
    /\ fetches = NoFetches
    /\ pc = "idle"
    /\ results = NoResults
    /\ signals = NoSignals
    /\ scored = NoScore
    /\ prediction = NoPrediction
    /\ prev = NoPrediction
    /\ runs = 0
    /\ probe = [now |-> 0, intraday_highs |-> <<>>, last_crash_alert |-> <<>>,
                last_reset_date |-> NoValue, sent |-> <<>>, first |-> {},
                crashes |-> [m \in Markets |-> {}],
                checks |-> 0, advances |-> 0]

CheckForCrashes ==
    /\ probe.checks < MaxChecks
    /\ \E enabled \in BOOLEAN, price \in [Tickers -> Prices] :
          probe' = [check_for_crashes(probe, enabled, price) EXCEPT !.checks = @ + 1]
    /\ UNCHANGED <<provider, clock, WEIGHTS, hist_2y, hist_5y, fetches, pc, results,
                   signals, scored, prediction, prev, runs>>

\* Time passes between two runs.
Advance ==
    /\ probe.advances < MaxAdvances
    /\ \E d \in Advances :
          probe' = [probe EXCEPT !.now = @ + d, !.advances = @ + 1]
    /\ UNCHANGED <<provider, clock, WEIGHTS, hist_2y, hist_5y, fetches, pc, results,
                   signals, scored, prediction, prev, runs>>

NextCrash == CheckForCrashes \/ Advance

SpecCrash == InitCrash /\ [][NextCrash]_vars

-----------------------------------------------------------------------------
(* The price-alert monitor (alert_monitor.py:10-167).  The scheduler runs
   check_all_alerts one run at a time (scheduler.py:20-26).  The tables are
   kept in probe, with the wall clock:
     now             datetime.now(), in minutes
     price_alerts    the rows of price_alerts, by id
     alert_history   the rows of alert_history, oldest first
     price           the price the last run read for the ticker *)

ALERT_COOLDOWN_HOURS == 1

\* Two alerts on one ticker: above 100, and a move of 5 percent from 100.
AlertRows ==
    (1 :> [ticker |-> "SPY", alert_type |-> "above", target_value |-> 100,
           baseline_price |-> NoValue, is_active |-> 1, triggered_at |-> NoValue])
    @@
    (2 :> [ticker |-> "SPY", alert_type |-> "percentage", target_value |-> 5,
           baseline_price |-> 100, is_active |-> 1, triggered_at |-> NoValue])

\* trigger_alert (alert_monitor.py:98-167): the notifications go out, one
\* history row is inserted and triggered_at is set, in one transaction.
trigger_alert(st, alert_id, current_price) ==
    [st EXCEPT
        !.alert_history = Append(@, [alert_id |-> alert_id, trigger_price |-> current_price,
                                     triggered_at |-> st.now]),
        !.price_alerts[alert_id].triggered_at = st.now]

\* check_single_alert (alert_monitor.py:57-95) on the alert row read at the
\* start of the run.
check_single_alert_without_cooldown(st, alert_id, alert, current_price) ==
    IF current_price = NoValue THEN st
    ELSE
        LET should_trigger ==
                CASE alert.alert_type = "above" -> current_price > alert.target_value
                  [] alert.alert_type = "below" -> current_price < alert.target_value
                  [] alert.alert_type = "percentage" ->
                        /\ alert.baseline_price # NoValue /\ alert.baseline_price # 0
                        /\ Abs(current_price - alert.baseline_price) * 100
                               >= Abs(alert.target_value) * Abs(alert.baseline_price)
                  [] OTHER -> FALSE
        IN  IF ~should_trigger THEN st
            ELSE trigger_alert(st, alert_id, current_price)
check_single_alert(st, alert_id, alert, current_price) ==
    IF current_price = NoValue THEN st
    ELSE
        LET should_trigger ==
                CASE alert.alert_type = "above" -> current_price > alert.target_value
                  [] alert.alert_type = "below" -> current_price < alert.target_value
                  [] alert.alert_type = "percentage" ->
                        /\ alert.baseline_price # NoValue /\ alert.baseline_price # 0
                        /\ Abs(current_price - alert.baseline_price) * 100
                               >= Abs(alert.target_value) * Abs(alert.baseline_price)
                  [] OTHER -> FALSE
        IN  IF ~should_trigger THEN st
            ELSE IF /\ alert.triggered_at # NoValue
                    /\ st.now - alert.triggered_at < 60 * ALERT_COOLDOWN_HOURS
            THEN st
            ELSE trigger_alert(st, alert_id, current_price)

\* check_all_alerts (alert_monitor.py:10-54): the active alerts are read once,
\* the price is fetched, and each alert is checked in turn.
RECURSIVE check_each(_, _, _, _)
check_each(st, alerts, ids, price) ==
    IF ids = {} THEN st
    ELSE LET id == CHOOSE i \in ids : \A j \in ids : i <= j
         IN  check_each(check_single_alert(st, id, alerts[id], price),
                        alerts, ids \ {id}, price)

check_all_alerts(st, price) ==
    LET active == {id \in DOMAIN st.price_alerts : st.price_alerts[id].is_active = 1}
    IN  [check_each(st, st.price_alerts, active, price) EXCEPT !.price = price]

InitAlerts ==
    /\ provider = AggProvider
    /\ clock = [ticks |-> 0, weekday |-> 6]
    /\ WEIGHTS = WEIGHTS_TABLE
    /\ hist_2y = None
    /\ hist_5y = None
    /\ fetches = NoFetches
    /\ pc = "idle"
    /\ results = NoResults
    /\ signals = NoSignals
    /\ scored = NoScore
    /\ prediction = NoPrediction
    /\ prev = NoPrediction
    /\ runs = 0
    /\ probe = [now |-> 0, price_alerts |-> AlertRows, alert_history |-> <<>>,
                price |-> NoValue, checks |-> 0, advances |-> 0]

CheckAllAlerts ==
    /\ probe.checks < MaxChecks
    /\ \E price \in {NoValue, 90, 100, 103, 110} :
          probe' = [check_all_alerts(probe, price) EXCEPT !.checks = @ + 1]
    /\ UNCHANGED <<provider, clock, WEIGHTS, hist_2y, hist_5y, fetches, pc, results,
                   signals, scored, prediction, prev, runs>>

NextAlerts == CheckAllAlerts \/ Advance

SpecAlerts == InitAlerts /\ [][NextAlerts]_vars

-----------------------------------------------------------------------------
(* Properties of get_prediction() as a whole *)

\* The eleven analyzers have returned / the signal map has been built.
AnalyzersDone == pc \in {"signals", "combine", "analyst_targets", "returned", "raised"}
SignalsBuilt == pc \in {"combine", "analyst_targets", "returned", "raised"}

\* C1: get_prediction() never propagates an exception to its caller, whatever
\* the provider answers (history, news, benchmark or analyst targets missing
\* or partly present).  Violated: with a mean target, a current price and an
\* analyst count but no low target, get_analyst_targets() raises at
\* predictor.py:1282 and nothing around predictor.py:1170 catches it.
C1_NeverPropagates == pc # "raised"

\* C2: when the provider has no price history for any horizon (None or an
\* empty frame), get_prediction() gives no Prediction carrying a
\* recommendation and a confidence.  Violated: every analyzer returns its
\* neutral result and a 'Hold' Prediction with confidence 20.0 is returned.
NoPriceHistory ==
    /\ provider.hist2y.none \/ provider.hist2y.len = 0
    /\ provider.hist5y.none \/ provider.hist5y.len = 0
C2_NoHistoryNoPrediction ==
    NoPriceHistory =>
        ~(prediction.returned
          /\ prediction.recommendation \in {"Buy", "Hold", "Sell"}
          /\ prediction.confidence >= 0)

\* C3: every value of the signal map built by get_prediction() (14 names) is
\* in [-1.0, 1.0], for every history and every news list.
C3_SignalsInRange ==
    SignalsBuilt =>
        /\ DOMAIN signals = SignalNames
        /\ Cardinality(DOMAIN signals) = 14
        /\ \A k \in DOMAIN signals : signals[k] >= 0 - 1000 /\ signals[k] <= 1000

\* A series with missing values: %K is NaN, min(1.0, NaN) is 1.0, and the
\* stochastic signal enters the map at the upper bound.
C3_NaNReadingEntersAtBound ==
    /\ pc = "combine"
    /\ provider.profile = "nan"
    /\ hist_2y = Series(320)
    /\ signals.stochastic = 1000

-----------------------------------------------------------------------------
(* Properties of the aggregation (predictor.py:1023-1056) *)

\* C4: combined_score is the sum, over every name of the weight table taken
\* exactly once, of signal x weight, clamped to [-1, 1] and rounded to three
\* decimals; it lies in [-1, 1].
C4_CombinedScoreIsWeightedSum ==
    scored.scored =>
        LET total == 14 * signals.ml_prediction + 10 * signals.rsi
                     + 10 * signals.ma_trend + 9 * signals.macd
                     + 9 * signals.historical_pattern + 8 * signals.sentiment
                     + 7 * signals.bollinger + 7 * signals.stochastic
                     + 6 * signals.relative_strength + 6 * signals.weekly_trend
                     + 6 * signals.volume_trend + 4 * signals.atr_volatility
                     + 2 * signals.weekday + 2 * signals.seasonal
            clamped == IF total > 100000 THEN 100000
                       ELSE IF total < 0 - 100000 THEN 0 - 100000 ELSE total
        IN  /\ scored.combined_score = RoundDiv(clamped, 100)
            /\ scored.combined_score >= 0 - 1000
            /\ scored.combined_score <= 1000

\* The two lightest names pull in opposite directions and cancel.
C4_LightestNamesCount ==
    /\ scored.scored
    /\ signals.seasonal = 1000
    /\ signals.weekday = 0 - 1000
    /\ signals.rsi = 250
    /\ scored.combined_score = 240

\* C5: the confidence is in [15, 95] for every combination of signal values.
C5_ConfidenceInRange ==
    scored.scored => scored.confidence >= 150 /\ scored.confidence <= 950

\* A map whose opposition and spread push the raw value under the floor.
C5_FloorApplies ==
    /\ scored.scored
    /\ scored.weighted_opposition > 0
    /\ scored.confidence = 150

\* C6: 'Buy' exactly when combined_score > 0.25, 'Sell' exactly when
\* combined_score < -0.25, 'Hold' otherwise, the two thresholds included.
C6_RecommendationThresholds ==
    scored.scored =>
        /\ scored.recommendation \in {"Buy", "Hold", "Sell"}
        /\ scored.recommendation = "Buy" <=> scored.combined_score > 250
        /\ scored.recommendation = "Sell" <=> scored.combined_score < 0 - 250
        /\ scored.recommendation = "Hold" <=>
              (scored.combined_score >= 0 - 250 /\ scored.combined_score <= 250)

\* A score of exactly 0.25 is a 'Hold'.
C6_HoldAtThreshold ==
    /\ scored.scored
    /\ scored.combined_score = 250
    /\ scored.recommendation = "Hold"

\* C7: the weights are non-negative and sum to 1.0, the keys of the table are
\* exactly the names of the signal map, and no operation changes the table.
C7_WeightTable ==
    /\ WEIGHTS = WEIGHTS_TABLE
    /\ \A k \in DOMAIN WEIGHTS : WEIGHTS[k] >= 0
    /\ SumOver(WEIGHTS, DOMAIN WEIGHTS) = 100
    /\ SignalsBuilt => DOMAIN signals = DOMAIN WEIGHTS

\* A second call has returned over the same table.
C7_TableAfterTwoCalls ==
    /\ pc = "returned"
    /\ runs = 2
    /\ DOMAIN signals = DOMAIN WEIGHTS

\* C8: with |combined_score|, opposition and variance penalty equal, the
\* strictly larger agreement term never gets the lower confidence.
C8_MonotoneInAgreement ==
    probe.applied => probe.confidence_hi >= probe.confidence_lo

\* A pair where the larger agreement gets the strictly higher confidence.
C8_StrictlyHigher ==
    /\ probe.applied
    /\ probe.agreement_hi > probe.agreement_lo
    /\ probe.confidence_hi > probe.confidence_lo

-----------------------------------------------------------------------------
(* Repeated calls, and short histories *)

\* The Prediction of this call and that of the call before agree on the
\* fields a caller compares.
SameAsPrevious ==
    /\ prediction.recommendation = prev.recommendation
    /\ prediction.confidence = prev.confidence
    /\ prediction.combined_score = prev.combined_score
    /\ prediction.signal_breakdown = prev.signal_breakdown
    /\ prediction.summary = prev.summary

\* C9 as stated: two invocations of get_prediction() over the same provider
\* snapshot return identical Predictions, the snapshot alone deciding the
\* result.  Violated: analyze_weekday reads today's weekday
\* (predictor.py:77), so the same snapshot scores differently a day later.
C9_FunctionOfSnapshotAlone ==
    (prediction.returned /\ prev.returned) => SameAsPrevious

\* C9, amended: two invocations over the same provider snapshot that read the
\* same clock return identical Predictions.
C9_FunctionOfSnapshotAndClock ==
    (prediction.returned /\ prev.returned
        /\ prediction.generated_at = prev.generated_at) => SameAsPrevious

\* Two calls at one clock reading, on a history long enough for every
\* analyzer, the second served from the predictor's cache.
C9_TwoCallsOneClock ==
    /\ prediction.returned
    /\ prev.returned
    /\ prediction.generated_at = prev.generated_at
    /\ hist_2y = Series(320)
    /\ fetches.p2y = 0
    /\ prediction.combined_score # 0

\* C10 as stated: under 200 observations every technical sub-signal (rsi,
\* macd, ma_trend, bollinger, stochastic, atr_volatility) is the
\* insufficient-data result with signal 0.0.  Violated: the Bollinger,
\* stochastic and ATR analyzers need only 20, 30 and 30 observations.
C10_AllInsufficientUnder200 ==
    (AnalyzersDone /\ (hist_2y.none \/ hist_2y.len < 200)) =>
        /\ results.technical = empty_technical_result
        /\ results.bollinger.signal = 0
        /\ results.bollinger.interpretation = "Insufficient Data"
        /\ results.stochastic.signal = 0
        /\ results.stochastic.interpretation = "Insufficient Data"
        /\ results.atr.signal = 0
        /\ results.atr.interpretation = "Insufficient Data"

\* C10, amended: under 200 observations rsi, macd and ma_trend are the
\* insufficient-data result with signal 0.0; bollinger is under 20
\* observations, stochastic and atr_volatility are under 30; none of the
\* analyzers raises.
C10_InsufficientUnderOwnWindow ==
    AnalyzersDone =>
        /\ (hist_2y.none \/ hist_2y.len < 200) =>
              results.technical = empty_technical_result
        /\ (hist_2y.none \/ hist_2y.len < 20) =>
              /\ results.bollinger.signal = 0
              /\ results.bollinger.interpretation = "Insufficient Data"
        /\ (hist_2y.none \/ hist_2y.len < 30) =>
              /\ results.stochastic.signal = 0
              /\ results.stochastic.interpretation = "Insufficient Data"
              /\ results.atr.signal = 0
              /\ results.atr.interpretation = "Insufficient Data"

\* 100 observations: no RSI, MACD or moving averages, but a Bollinger signal.
C10_BollingerAt100 ==
    /\ pc = "signals"
    /\ hist_2y = Series(100)
    /\ results.technical = empty_technical_result
    /\ results.bollinger.signal # 0

-----------------------------------------------------------------------------
(* Degraded inputs *)

SentimentDone ==
    pc \in {"bollinger", "volume_trend", "atr", "historical_pattern", "ml",
            "stochastic", "relative_strength"} \/ AnalyzersDone

\* C11: with no headlines (stock.news empty, or its fetch failing)
\* analyze_sentiment returns signal 0.0, articles_analyzed 0 and the three
\* sentiment counts 0, and raises nothing.
C11_NoHeadlinesNeutral ==
    (SentimentDone /\ provider.news \in {"raises", "empty"}) =>
        /\ results.sentiment.signal = 0
        /\ results.sentiment.articles_analyzed = 0
        /\ results.sentiment.positive_count = 0
        /\ results.sentiment.negative_count = 0
        /\ results.sentiment.neutral_count = 0

\* The news fetch failed and the pipeline went on to the next analyzer.
C11_FailedFetchGoesOn ==
    /\ pc = "bollinger"
    /\ provider.news = "raises"
    /\ results.sentiment.articles_analyzed = 0
    /\ results.sentiment.signal = 0

\* The table get_prediction() can score with: the names of the signal map,
\* weights summing to 1.0.
WeightsValid ==
    /\ DOMAIN WEIGHTS = SignalNames
    /\ SumOver(WEIGHTS, DOMAIN WEIGHTS) = 100

\* C12: a weight table that does not sum to 1.0 or names a signal the
\* aggregator does not compute is rejected at initialisation: no
\* get_prediction() request fails on it or scores with it.  Violated: nothing
\* validates the table; a request raises KeyError at predictor.py:1024, or
\* returns a score computed with the unnormalised weights.
C12_BadTableRejectedAtInit ==
    ~WeightsValid => (pc # "raised" /\ ~scored.scored)

\* C13: within one get_prediction() run the provider's history fetch is
\* invoked at most once per horizon, whatever the provider returns.
\* Violated: a fetch that returns None leaves the cache at None, and each of
\* the nine analyzers reading the 2-year series fetches again.
C13_OneFetchPerHorizon == fetches.p2y <= 1 /\ fetches.p5y <= 1

\* C14: no analyzer changes the cached price series: after any sequence of
\* analyze_* calls the frame in _hist_2y / _hist_5y has the rows and the
\* columns it was fetched with.
C14_CacheAsFetched ==
    /\ hist_2y.none \/ hist_2y = provider.hist2y
    /\ hist_5y.none \/ hist_5y = provider.hist5y
    /\ ~hist_2y.none => hist_2y.cols = OHLCV
    /\ ~hist_5y.none => hist_5y.cols = OHLCV

\* Every analyzer that derives columns has run on a frame long enough for it,
\* twice on the same predictor.
C14_AfterDerivingAnalyzers ==
    /\ pc = "returned"
    /\ runs = 2
    /\ fetches.p2y = 0
    /\ hist_2y = Series(320)
    /\ hist_5y = Series(1260)
    /\ ~readings.malformed
    /\ results.weekday.error = ""

\* C15: when SPY's history is unavailable, too short, or its fetch raises,
\* analyze_relative_strength returns signal 0.0 with an interpretation that
\* says so, every other analyzer has produced its result, and the prediction
\* goes on: the benchmark never makes get_prediction() raise.
C15_BenchmarkUnavailable ==
    (AnalyzersDone /\ provider.spy \in {"raises", "short"}) =>
        /\ results.relative_strength.signal = 0
        /\ results.relative_strength.interpretation \in
              {"Insufficient Data", "Market data unavailable", "Error"}
        /\ \A a \in DOMAIN results : results[a] # NotRun
        /\ SignalsBuilt => signals.relative_strength = 0
        /\ pc = "raised" => get_analyst_targets(provider.targets).raised
        /\ pc = "returned" =>
              /\ prediction.returned
              /\ prediction.signal_breakdown.relative_strength.signal = 0

\* SPY's fetch raised on a long history, and a scored Prediction came back.
C15_PredictionWithoutBenchmark ==
    /\ pc = "returned"
    /\ provider.spy = "raises"
    /\ hist_2y = Series(320)
    /\ results.relative_strength.interpretation = "Error"
    /\ prediction.combined_score # 0

-----------------------------------------------------------------------------
(* Derived values *)

\* C16: when every signal of the map is exactly 0.0, combined_score is 0.0
\* and the recommendation is 'Hold'.
C16_AllZeroIsHold ==
    (scored.scored /\ \A k \in DOMAIN signals : signals[k] = 0) =>
        /\ scored.combined_score = 0
        /\ scored.recommendation = "Hold"

\* The all-zero map has been scored.
C16_AllZeroScored ==
    /\ scored.scored
    /\ \A k \in SignalNames : signals[k] = 0
    /\ scored.recommendation = "Hold"
    /\ scored.confidence = 200

\* C17: the weekly_trend signal comes from the seasonal analyzer's weekly
\* trend only: min(1, 0.3 + streak x 0.15) when the direction is 'up',
\* max(-1, -0.3 - streak x 0.15) when 'down', 0 otherwise; the streak is the
\* number of consecutive most recent weekly returns in the majority direction
\* and is between 0 and 4.
C17_WeeklyTrendDerived ==
    probe.applied =>
        LET w == probe.weekly_returns
            n == Len(w)
            ups == Cardinality({i \in 1..n : w[i] > 0})
            downs == Cardinality({i \in 1..n : w[i] < 0})
            direction == IF n >= 2 /\ ups > downs THEN "up"
                         ELSE IF n >= 2 /\ downs > ups THEN "down" ELSE "flat"
            InDirection(i) == \/ direction = "up" /\ w[i] > 0
                              \/ direction = "down" /\ w[i] < 0
            runs_back == {j \in 0..n : \A i \in (n - j + 1)..n : InDirection(i)}
            streak == CHOOSE j \in runs_back : \A l \in runs_back : l <= j
            up_signal == IF 300 + 150 * streak > 1000 THEN 1000 ELSE 300 + 150 * streak
        IN  /\ probe.weekly_trend.direction = direction
            /\ probe.weekly_trend.streak = streak
            /\ streak \in 0..4
            /\ probe.signal = IF direction = "up" THEN up_signal
                              ELSE IF direction = "down" THEN 0 - up_signal
                              ELSE 0

\* Three rising weeks after a falling one: direction 'up', streak 3, signal 0.75.
C17_ThreeWeekStreak ==
    /\ probe.applied
    /\ probe.weekly_returns = <<0 - 1, 1, 1, 1>>
    /\ probe.weekly_trend.streak = 3
    /\ probe.signal = 750

\* C18: a Golden (Death) Cross is reported whenever MA50 goes from below
\* (above) MA200 to above (below) it between two consecutive bars among the
\* last 5, and none is reported without such a flip.  Violated: only the last
\* two bars are compared, so a cross two to four bars back goes unreported.
C18_CrossWithinLastFiveBars ==
    probe.applied =>
        LET ma50 == probe.ma50_recent
            ma200 == probe.ma200_recent
            golden == \E i \in 1..(Len(ma50) - 1) :
                          ma50[i] < ma200[i] /\ ma50[i + 1] > ma200[i + 1]
            death == \E i \in 1..(Len(ma50) - 1) :
                          ma50[i] > ma200[i] /\ ma50[i + 1] < ma200[i + 1]
            reported == {probe.crossovers[i] : i \in 1..Len(probe.crossovers)}
        IN  /\ golden <=> "Golden Cross (MA50 crossed above MA200)" \in reported
            /\ death <=> "Death Cross (MA50 crossed below MA200)" \in reported

\* C19: a lookback (5, 21, 63, 126, 252 days; weights 0.30, 0.25, 0.20, 0.15,
\* 0.10) whose target index is outside the series, or is the first row, is
\* skipped; the final signal is the sum of signal x weight over the lookbacks
\* used, divided by the sum of their weights only; it is in [-1, 1].
C19_SkippedLookbacksRenormalised ==
    probe.applied =>
        LET len == probe.hist.len
            target(d) == len - 1 - d
            InSeries(d) == target(d) >= 1 /\ target(d) <= len - 1
            s(d) == LET x == 5 * probe.combined_return[d]
                    IN  IF x > 1000 THEN 1000 ELSE IF x < 0 - 1000 THEN 0 - 1000 ELSE x
            term(d, w) == IF InSeries(d) THEN w * s(d) ELSE 0
            share(d, w) == IF InSeries(d) THEN w ELSE 0
            num == term(5, 30) + term(21, 25) + term(63, 20) + term(126, 15)
                   + term(252, 10)
            den == share(5, 30) + share(21, 25) + share(63, 20) + share(126, 15)
                   + share(252, 10)
        IN  /\ probe.result.signal = IF den > 0 THEN RoundDiv(num, den) ELSE 0
            /\ probe.result.signal >= 0 - 1000
            /\ probe.result.signal <= 1000
            /\ \A d \in {5, 21, 63, 126, 252} :
                  InSeries(d) <=>
                     \E i \in 1..Len(probe.result.lookbacks) :
                        probe.result.lookbacks[i] = d

\* 253 rows: the one-year date is the first row, so four lookbacks are used
\* and their weights 0.90 are the divisor.
C19_OneYearDateIsFirstRow ==
    /\ probe.applied
    /\ probe.hist = Series(253)
    /\ probe.result.lookbacks = <<5, 21, 63, 126>>
    /\ probe.combined_return[5] = 200
    /\ probe.combined_return[21] = 200
    /\ probe.combined_return[63] = 200
    /\ probe.combined_return[126] = 200
    /\ probe.result.signal = 1000

\* C20: every fold of analyze_ml's accuracy estimate trains on a prefix of the
\* time-ordered rows and validates on the rows right after it: each training
\* row precedes each validation row of the fold, the fold boundary strictly
\* increases from fold to fold, rows keep their order, and the average is
\* over the folds with a non-empty validation part (0.5 when there is none).
C20_WalkForwardFolds ==
    probe.applied =>
        LET X == probe.X
            folds == probe.folds
            n == Len(folds)
        IN  /\ \A k \in 1..n :
                  LET tr == folds[k].train
                      vl == folds[k].validate
                  IN  /\ tr = SubSeq(X, 1, Len(tr))
                      /\ vl = SubSeq(X, Len(tr) + 1, Len(tr) + Len(vl))
                      /\ Len(vl) > 0
                      /\ \A i \in 1..Len(tr) : \A j \in 1..Len(vl) : tr[i] < vl[j]
            /\ \A k \in 1..(n - 1) : Len(folds[k].train) < Len(folds[k + 1].train)
            /\ IF n = 0 THEN probe.avg_accuracy = 500
               ELSE (IF n >= 1 THEN probe.scores[folds[1].fold] ELSE 0)
                    + (IF n >= 2 THEN probe.scores[folds[2].fold] ELSE 0)
                    + (IF n >= 3 THEN probe.scores[folds[3].fold] ELSE 0)
                    = n * probe.avg_accuracy

\* 203 clean rows: folds of 40 rows, validated on rows 81-120, 121-160 and
\* 161-200, with three different scores.
C20_ThreeFoldsOf40 ==
    /\ probe.applied
    /\ Len(probe.X) = 203
    /\ Len(probe.folds) = 3
    /\ Len(probe.folds[1].train) = 80
    /\ Len(probe.folds[3].train) = 160
    /\ probe.folds[3].validate[40] = 200
    /\ probe.scores = (0 :> 400 @@ 1 :> 550 @@ 2 :> 700)
    /\ probe.avg_accuracy = 550

-----------------------------------------------------------------------------
(* Per-analyzer formulas *)

Sign(x) == IF x > 0 THEN 1 ELSE IF x < 0 THEN 0 - 1 ELSE 0

\* C21 as stated: the adjusted ML signal has the sign of raw, satisfies
\* 0.3 x |raw| <= |adjusted| <= |raw|, and the multiplier is 0.3 whenever the
\* average fold accuracy is at most 0.575.  Violated: the product is rounded
\* to three decimals, so raw 0.001 with multiplier 0.3 gives adjusted 0.0.
C21_AdjustedKeepsSignAndShare ==
    probe.applied =>
        /\ Sign(probe.adjusted) = Sign(probe.raw)
        /\ 1000 * Abs(probe.adjusted) >= 300 * Abs(probe.raw)
        /\ Abs(probe.adjusted) <= Abs(probe.raw)
        /\ probe.avg_accuracy <= 575 =>
              1000 * Abs(probe.adjusted) = 300 * Abs(probe.raw)

\* C21, amended: adjusted is raw x max(0.3, clamp((accuracy - 0.5) x 4, 0, 1))
\* rounded to three decimals: it is within 0.0005 of that product, never has
\* the opposite sign of raw, satisfies 0.3 x |raw| - 0.0005 <= |adjusted| <=
\* |raw|, and the multiplier is exactly 0.3 whenever the accuracy is at most
\* 0.575.
C21_AdjustedWithinRounding ==
    probe.applied =>
        LET scaled == (probe.avg_accuracy - 500) * 4
            clamped == IF scaled < 0 THEN 0 ELSE IF scaled > 1000 THEN 1000 ELSE scaled
            multiplier == IF clamped < 300 THEN 300 ELSE clamped
        IN  /\ probe.raw >= 0 - 1000 /\ probe.raw <= 1000
            /\ Abs(10 * probe.raw - 2 * (probe.prob_positive - 5000)) <= 5
            /\ Abs(1000 * probe.adjusted - probe.raw * multiplier) <= 500
            /\ Sign(probe.adjusted) \in {Sign(probe.raw), 0}
            /\ 1000 * Abs(probe.adjusted) >= 300 * Abs(probe.raw) - 500
            /\ Abs(probe.adjusted) <= Abs(probe.raw)
            /\ probe.avg_accuracy <= 575 => multiplier = 300

\* A classifier no better than chance: probability 0.75 gives raw 0.5, and
\* the floor of 0.3 leaves 0.15.
C21_FloorOnChanceAccuracy ==
    /\ probe.applied
    /\ probe.prob_positive = 7500
    /\ probe.avg_accuracy = 500
    /\ probe.raw = 500
    /\ probe.adjusted = 150

\* The weights C22 lists, in tenths, for a headline published at hour p (0 when
\* the publish time is unknown) read at hour 1000.
StatedWeight(p) ==
    IF p = 0 THEN 4
    ELSE IF 1000 - p <= 24 THEN 10
    ELSE IF 1000 - p <= 72 THEN 7
    ELSE IF 1000 - p <= 168 THEN 4
    ELSE 2

\* C22: the sentiment signal is the recency-weighted average of the headline
\* scores, clamped to [-1, 1] (weights 1.0 up to 24 h, 0.7 up to 72 h, 0.4 up
\* to 168 h, 0.2 beyond, 0.4 for an unknown publish time), to three decimals,
\* and the positive, negative and neutral counts add up to articles_analyzed.
C22_RecencyWeightedAverage ==
    probe.applied =>
        LET a == probe.articles
            r == probe.result
            total == SumOver([i \in DOMAIN a |-> StatedWeight(a[i].published)], DOMAIN a)
            sum == SumOver([i \in DOMAIN a |->
                        a[i].sentiment_score * StatedWeight(a[i].published)], DOMAIN a)
        IN  /\ 2 * Abs(r.signal * total - sum) <= total
            /\ r.signal >= 0 - 1000 /\ r.signal <= 1000
            /\ r.articles_analyzed = Len(a)
            /\ r.positive_count + r.negative_count + r.neutral_count = r.articles_analyzed
            /\ r.positive_count = Cardinality({i \in DOMAIN a : a[i].sentiment = "positive"})
            /\ r.negative_count = Cardinality({i \in DOMAIN a : a[i].sentiment = "negative"})

\* A fresh positive headline beside a negative one of unknown age:
\* (1.0 x 1.0 - 0.333 x 0.4) / 1.4 = 0.619.
C22_UnknownAgeCountsFourTenths ==
    /\ probe.applied
    /\ probe.articles = <<[sentiment |-> "positive", sentiment_score |-> 1000, published |-> 990],
                          [sentiment |-> "negative", sentiment_score |-> 0 - 333, published |-> 0]>>
    /\ probe.result.signal = 619
    /\ probe.result.articles_analyzed = 2

\* What C23 counts toward one polarity: 3 per matched phrase of that polarity,
\* 1 per own word not preceded by a negation, 1 per opposite word preceded by
\* one.
StatedCount(w, phrases, own, opposite) ==
    LET preceded(i) == i > 1 /\ w[i - 1] \in negation_words
    IN  SumOver([ph \in phrases |-> IF phrase_in(ph, w) THEN 3 ELSE 0], phrases)
        + SumOver([i \in DOMAIN w |->
                     IF (w[i] \in own /\ ~preceded(i)) \/ (w[i] \in opposite /\ preceded(i))
                     THEN 1 ELSE 0], DOMAIN w)

\* C23: a headline's score is (pos - neg) / (pos + neg), 0.0 when nothing
\* matched, where a lexicon word right after a negation counts toward the
\* opposite polarity and each matched phrase counts 3; the score is in [-1, 1]
\* and the label is 'positive' iff score > 0.05, 'negative' iff score < -0.05,
\* 'neutral' otherwise.
C23_HeadlineScore ==
    probe.applied =>
        LET pos == StatedCount(probe.words, positive_phrases, positive_words, negative_words)
            neg == StatedCount(probe.words, negative_phrases, negative_words, positive_words)
        IN  /\ pos + neg = 0 => probe.score = 0
            /\ pos + neg > 0 =>
                  2 * Abs(probe.score * (pos + neg) - 1000 * (pos - neg)) <= pos + neg
            /\ probe.score >= 0 - 1000 /\ probe.score <= 1000
            /\ probe.label = "positive" <=> probe.score > 50
            /\ probe.label = "negative" <=> probe.score < 0 - 50
            /\ probe.label = "neutral" <=> (probe.score >= 0 - 50 /\ probe.score <= 50)

\* "not beat expectations loss": the phrase 'beat expectations' counts 3
\* positive, the negated 'beat' and the plain 'loss' 1 negative each:
\* (3 - 2) / 5 = 0.2.
C23_NegatedWordAndPhrase ==
    /\ probe.applied
    /\ probe.words = <<"not", "beat", "expectations", "loss">>
    /\ probe.score = 200
    /\ probe.label = "positive"

\* C24: RSI under 30 is 'Oversold' with signal 0.5 + (30 - RSI)/60, over 70
\* 'Overbought' with -0.5 - (RSI - 70)/60, otherwise 'Neutral' with
\* (50 - RSI)/40; the signal is in [-1, 1], does not increase when RSI does,
\* and has no jump at 30 or 70 (readings a tenth apart give signals at most
\* 0.003 apart).
C24_RsiMapping ==
    probe.applied =>
        LET v == probe.rsi_a
            w == probe.rsi_b
        IN  /\ probe.a.signal >= 0 - 1000 /\ probe.a.signal <= 1000
            /\ ~IsNaN(v) =>
                  /\ v < 300 => /\ probe.a.interpretation = "Oversold"
                                /\ Abs(60 * probe.a.signal - (30000 + (300 - v) * 100)) <= 30
                  /\ v > 700 => /\ probe.a.interpretation = "Overbought"
                                /\ Abs(60 * probe.a.signal + 30000 + (v - 700) * 100) <= 30
                  /\ (v >= 300 /\ v <= 700) =>
                                /\ probe.a.interpretation = "Neutral"
                                /\ Abs(40 * probe.a.signal - (500 - v) * 100) <= 20
            /\ (~IsNaN(v) /\ ~IsNaN(w) /\ v <= w) => probe.a.signal >= probe.b.signal
            /\ (~IsNaN(v) /\ ~IsNaN(w) /\ Abs(v - w) <= 1) =>
                  Abs(probe.a.signal - probe.b.signal) <= 3

\* RSI 25.0 is 'Oversold' with signal 0.583, next to 30.0, 'Neutral' at 0.5.
C24_Rsi25Is583 ==
    /\ probe.applied
    /\ probe.rsi_a = 250
    /\ probe.a = [value |-> 250, interpretation |-> "Oversold", signal |-> 583]
    /\ probe.rsi_b = 300
    /\ probe.b = [value |-> 300, interpretation |-> "Neutral", signal |-> 500]

\* C25: analyze_weekday reads today's weekday as Friday (4) on Saturday and
\* Sunday; the signal is clamp((pct_positive - 50)/25, -1, 1); a weekday whose
\* recorded returns are all positive gives 1.0 however few they are, and a
\* weekday with no recorded returns gives 0.0.
C25_WeekdaySignal ==
    probe.applied =>
        LET r == probe.result
            today == IF clock.weekday \in {5, 6} THEN 4 ELSE clock.weekday
            rows == probe.rows[today]
            scaled == (r.today_pct_positive - 500) * 4
        IN  /\ r.today_weekday = today
            /\ r.signal = IF scaled > 1000 THEN 1000
                          ELSE IF scaled < 0 - 1000 THEN 0 - 1000 ELSE scaled
            /\ rows = <<>> => r.signal = 0
            /\ (rows # <<>> /\ \A i \in DOMAIN rows : rows[i].daily_return > 0) =>
                  r.signal = 1000
            /\ (rows # <<>> /\ \A i \in DOMAIN rows : rows[i].daily_return <= 0) =>
                  r.signal = 0 - 1000

\* On a Sunday, with a single Friday on record and that one positive.
C25_SundayReadsOneFriday ==
    /\ probe.applied
    /\ clock.weekday = 6
    /\ probe.rows[4] = <<[daily_return |-> 1, recent |-> FALSE]>>
    /\ probe.result.today_weekday = 4
    /\ probe.result.signal = 1000

\* On a Thursday with no Thursday on record.
C25_NoRowsForToday ==
    /\ probe.applied
    /\ clock.weekday = 3
    /\ probe.rows[3] = <<>>
    /\ probe.result.signal = 0

Rows(seq) == {seq[i] : i \in DOMAIN seq}

\* C26: the most recent row, whose next-day label is unknown, is only scored:
\* it is never a labelled example in the final model's training prefix nor in
\* the training or validation part of any fold.  Violated: the row's target is
\* 0, not null, so dropna keeps it, and when the clean row count is a multiple
\* of 5 the last fold validates on it.
C26_LatestRowOnlyScored ==
    probe.applied =>
        LET latest == probe.df_len
            sets == probe.sets
        IN  /\ latest \notin Rows(sets.final)
            /\ \A k \in DOMAIN sets.folds :
                  /\ latest \notin Rows(sets.folds[k].train)
                  /\ latest \notin Rows(sets.folds[k].validate)

\* What the code does keep: the latest row is in no training set, neither the
\* final model's nor a fold's.
C26_LatestRowNeverTrainedOn ==
    probe.applied =>
        LET latest == probe.df_len
            sets == probe.sets
        IN  /\ latest \notin Rows(sets.final)
            /\ \A k \in DOMAIN sets.folds : latest \notin Rows(sets.folds[k].train)

\* 399 rows, 200 of them clean: the third fold validates on rows 360..399, the
\* last of them the row that is scored, labelled 0.
C26_LastFoldValidatesOnLatest ==
    /\ probe.applied
    /\ probe.df_len = 399
    /\ probe.sets.returned = "scored"
    /\ probe.sets.latest = 399
    /\ probe.y[399] = 0
    /\ probe.up[398]
    /\ Len(probe.sets.folds) = 3
    /\ probe.sets.folds[3].validate[40] = 399

-----------------------------------------------------------------------------
(* The trading bot *)

\* C27: a pending trade is executed at most once: no two orders are placed for
\* the same stored trade, the first Confirm or Cancel removes the chat's
\* pending trade, and a callback that finds none places no order and reports
\* 'expired or already processed'.
C27_PendingExecutedAtMostOnce ==
    /\ [](\A i, j \in DOMAIN probe.orders :
             probe.orders[i].trade = probe.orders[j].trade => i = j)
    /\ [][probe'.presses = probe.presses + 1 =>
             LET p == probe'.pressed
                 chat == probe.prompts[p].chat
             IN  /\ probe'.pending[chat] = NoTrade
                 /\ Len(probe'.orders) <= Len(probe.orders) + 1
                 /\ probe.pending[chat] = NoTrade =>
                       /\ probe'.orders = probe.orders
                       /\ probe'.prompts[p].text = "Trade expired or already processed."]_vars

\* Confirm pressed twice on one prompt: one order, and the second press is
\* told the trade is gone.
C27_SecondConfirmExpired ==
    /\ Len(probe.prompts) = 1
    /\ probe.presses = 2
    /\ Len(probe.orders) = 1
    /\ probe.prompts[1].text = "Trade expired or already processed."
    /\ probe.pending[AuthorizedChat] = NoTrade

\* C28: Confirm executes exactly the trade shown in the prompt whose button
\* was pressed.  Violated: the pending trade is kept per chat and the button
\* carries no trade, so Confirm on an earlier prompt places the order of the
\* latest command.
C28_ConfirmExecutesShownTrade ==
    \A i \in DOMAIN probe.orders :
        probe.orders[i].trade = probe.prompts[probe.orders[i].prompt].shown

\* /buy AAPL 10, then /buy BTC 500usd, then Confirm on the first prompt.
C28_EarlierPromptPlacesLaterOrder ==
    /\ Len(probe.prompts) = 2
    /\ Len(probe.orders) = 1
    /\ probe.orders[1].prompt = 1
    /\ probe.prompts[1].shown.ticker = "AAPL"
    /\ probe.orders[1].trade.ticker = "BTC"

-----------------------------------------------------------------------------
(* The monitors *)

\* C29: two flash-crash notifications for the same market type are never less
\* than CRASH_COOLDOWN_MINUTES apart; whether a run notifies a market type
\* depends on that type's crashes and its own last notification only, not on
\* the other type; and the first price seen for a ticker on a day only sets
\* its intraday high and is never reported.
C29_CooldownPerMarket ==
    /\ [](\A i, j \in DOMAIN probe.sent :
             (i < j /\ probe.sent[i].market = probe.sent[j].market) =>
                 probe.sent[j].at - probe.sent[i].at >= CRASH_COOLDOWN_MINUTES)
    /\ [][probe'.checks = probe.checks + 1 =>
             LET new == {i \in DOMAIN probe'.sent : i > Len(probe.sent)}
                 before(m) == {i \in DOMAIN probe.sent : probe.sent[i].market = m}
             IN  /\ \A t \in probe'.first :
                       /\ t \in DOMAIN probe'.intraday_highs
                       /\ \A m \in Markets : t \notin probe'.crashes[m]
                       /\ \A i \in new : t \notin probe'.sent[i].tickers
                 /\ \A m \in Markets :
                       (\E i \in new : probe'.sent[i].market = m)
                       <=> /\ probe'.crashes[m] # {}
                           /\ \A i \in before(m) :
                                 probe.now - probe.sent[i].at >= CRASH_COOLDOWN_MINUTES]_vars

\* Stocks were notified at minute 10; at minute 30 both markets crash: stocks
\* are still cooling down and crypto is notified.
C29_CryptoDuringStockCooldown ==
    /\ probe.now = 30
    /\ probe.crashes = [stocks |-> {"SPY"}, crypto |-> {"BTC-USD"}]
    /\ probe.sent = <<[market |-> "stocks", at |-> 10, tickers |-> {"SPY"}],
                      [market |-> "crypto", at |-> 30, tickers |-> {"BTC-USD"}]>>

\* The second run comes after midnight and reads 90 for both tickers: these
\* are the day's first prices, the highs restart at 90 and nothing is reported.
C29_FirstPriceOfNewDay ==
    /\ probe.now >= DayMinutes
    /\ probe.first = {"SPY", "BTC-USD"}
    /\ probe.intraday_highs = ("SPY" :> 90 @@ "BTC-USD" :> 90)
    /\ probe.checks = 2
    /\ probe.sent = <<>>

\* The condition of a price alert, as its type states it.
ConditionHolds(alert, price) ==
    /\ price # NoValue
    /\ \/ alert.alert_type = "above" /\ price > alert.target_value
       \/ alert.alert_type = "below" /\ price < alert.target_value
       \/ /\ alert.alert_type = "percentage"
          /\ Abs(price - alert.baseline_price) * 100 >= alert.target_value * alert.baseline_price

=============================================================================
